\* A request and a Shutdown call, made to each of the processes that follow one
\* another; a few ticks without a lease; up to two sets of certificates.
CONSTANTS
  Requests = {q1, q2}
  Controls = {q2}
  Timeout = 2
  MaxGenerations = 2
SPECIFICATION FairSpec
INVARIANTS CertificateIsTrusted
PROPERTIES IdleExitCutsNothing ServiceEnds IdleServiceEnds
