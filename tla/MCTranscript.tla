--------------------------- MODULE MCTranscript ---------------------------
(* TranscriptUse with four tags (RDSEED, dice, coins, a TPM) and payloads  *)
(* on both sides of every limit.  Some look like the fields around them.   *)
EXTENDS TranscriptUse

FourTags == <<2, 16, 17, 19>>
OneByte == <<65>>

S(tag, algo, bytes) == [tag |-> tag, algo |-> algo, bytes |-> bytes]

FewSources ==
  {S(2, <<>>, <<>>), S(2, <<7>>, <<16, 0>>), S(2, <<0>>, <<1>>),
   S(2, <<7, 7>>, <<1>>), S(2, <<>>, <<1, 2, 3>>),
   S(16, <<>>, <<1>>), S(16, <<1>>, <<6, 1, 1>>), S(16, <<>>, <<7>>), S(16, <<>>, <<1, 1, 1, 1>>),
   S(17, <<>>, <<>>), S(17, <<1>>, <<0, 1>>), S(17, <<1>>, <<0, 1, 1>>), S(17, <<>>, <<2>>),
   S(19, <<7>>, <<5>>), S(19, <<7>>, <<5, 5>>)}
===========================================================================
