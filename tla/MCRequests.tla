----------------------------- MODULE MCRequests -----------------------------
(* Small instances of Requests for TLC.                                     *)
EXTENDS Requests

CONSTANTS t1, t2

OneThread == {t1}
TwoThreads == {t1, t2}

\* What may stand in a query as it is, and what may not.
AwkwardValues == {<<98, 61, 63>>, <<32, 38, 37, 43, 127>>}
Letters == {<<98>>, <<99>>}

\* Both ends of each range that urlEncode tells apart, and of those of "%" and
\* its digits.
EdgeBytes ==
  {0, 9, 15, 16, 31, 32, 33, 37, 38, 43, 47, 48, 57, 58, 64, 65, 90, 91, 96, 97, 122, 123, 127,
   128, 129, 143, 144, 159, 160, 200, 240, 241, 255}

TwoNames == {<<97>>, <<98>>}
TwoStreams == {<<97>>, <<98, 64>>}

TestConfig == {Config("test", Hosts(FALSE, "USDM"))}
=============================================================================
