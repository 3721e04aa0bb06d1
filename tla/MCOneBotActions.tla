-------------------------- MODULE MCOneBotActions --------------------------
(* OneBotActions with calls that share an echo, and with the notice.        *)
EXTENDS OneBotActions, TLC

CONSTANTS progress, again, notice, fetch

\* A progress message and another with its echo, at the same time or later.
SharedCalls == {progress, again}
SharedEcho == [c \in SharedCalls |-> progress]

\* Calls with echoes of their own.
NoticeCalls == {notice, fetch}
OwnEcho == [c \in NoticeCalls |-> c]

\* The restart notice alone.
OnlyNotice == {notice}
OnlyEcho == [c \in OnlyNotice |-> c]

\* The notice beside a progress message and its repetition.
ThreeCalls == {notice, progress, again}
ThreeEcho == [c \in ThreeCalls |-> IF c = notice THEN notice ELSE progress]
TheirEchoes == {notice, progress}

Alike == Permutations(Conns)
=============================================================================
