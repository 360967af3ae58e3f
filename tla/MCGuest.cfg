CONSTANTS
    c1 = c1
    c2 = c2
    Callers = {c1, c2}
    Menu <- MCMenu
    MaxLate = 1
    MaxBytes = 2
    GuestBytes = 3
    BufferRoom = 1
    BadAcks = TRUE
    Backlog = 2
    MaxConns = 3
SPECIFICATION MCGuestSpec
INVARIANTS NilMeansDone NoPanic ToldState CapturedAll HandedOutReady ReadsGuestOnly OrphansOnlyWrong OnePeer
PROPERTIES CallsReturn CaptureEnds CancelReturns AcceptReturns
