SPECIFICATION SagaSpec
CONSTANTS
  Rows = {r1}
  Funded = {r1}
  NoRow = NoRow
  i1 = i1
  Requests = {q1, q2}
  Instances = {i1}
  Host <- HostOf
  Observed = {"release", "cancel", "split"}
  Faults = TRUE
  MaxRequests = 1
  Sagas = {s1, s2}
  NoSaga = NoSaga
  j1 = j1
  j2 = j2
  j3 = j3
  MayVote <- Votes
  Jurors = {j1, j2, j3}
  MaxFailures = 1
SYMMETRY Symmetry
INVARIANTS SagaTypeOK DisputeIsRecorded OneOpenSaga VotesCount CompletedIsPaid PaidTwiceIsFlagged StuckOnlyByFailure
PROPERTIES SagaOnward
CHECK_DEADLOCK FALSE
