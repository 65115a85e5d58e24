SPECIFICATION FairSpec
CONSTANTS
    Skb = {k1, k2, k3, k4}
    Sender = {s1}
    Completer = {c1}
    MaxTx = 2
    NoSkb = NoSkb
INVARIANTS Inductive NoLostWakeup PendingExact ExactlyOnePlace NothingLeftBehind
PROPERTIES ImplementsPipe EverySkbLeaves DisconnectCompletes
