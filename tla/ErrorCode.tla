------------------------------ MODULE ErrorCode ------------------------------
(***************************************************************************)
(* How the balancer classifies the error of an RPC request                 *)
(* (balancer/error_code.go and handleRPCError).  An error is abstracted to *)
(* the shape getErrCode looks for and the codes its JSON body carries: a   *)
(* code that is missing there decodes as 0.                                *)
(***************************************************************************)
EXTENDS Integers, Sequences, FiniteSetsExt

rateLimitErrorCode == 429

tooBigErrorCodes == {-32602, -32600}

\* "429" starts with that number; "slice" is "400 Bad Request: [...]" with one
\* code per response of the batch; "single" is any other error that encodes to
\* a JSON object; "opaque" is an error, or a slice, that does not decode.
Shapes == {"429", "slice", "single", "opaque"}

Opaque == [shape |-> "opaque", codes |-> <<>>]

\* The code that is returned beside an error, of use to nobody.
NoCode == 0

\* Zero codes are skipped until the first other one; from there on all have to
\* be equal to it.
getErrCodeSliceBadReq(codes) ==
    LET first == Min({i \in DOMAIN codes : codes[i] # 0})
    IN  IF \A i \in DOMAIN codes : codes[i] = 0 THEN 0
        ELSE IF \A i \in first..Len(codes) : codes[i] = codes[first] THEN codes[first]
        ELSE NoCode

getErrCodeSingle(codes) == codes[1]

getErrCode(err) ==
    CASE err.shape = "429"    -> rateLimitErrorCode
      [] err.shape = "slice"  -> getErrCodeSliceBadReq(err.codes)
      [] err.shape = "single" -> getErrCodeSingle(err.codes)
      [] err.shape = "opaque" -> NoCode

\* What handleRPCError makes of the error: types.ErrReqTooBig, errRateLimit,
\* or the error itself, also when it has no code.
handleRPCError(err) ==
    LET code == getErrCode(err)
    IN  CASE code \in tooBigErrorCodes   -> "ErrReqTooBig"
          [] code = rateLimitErrorCode   -> "errRateLimit"
          [] OTHER                       -> "unexpected"
=============================================================================
