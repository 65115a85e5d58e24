------------------------------ MODULE MCRxPath ------------------------------
(* Instances of RxPath for TLC. *)
EXTENDS RxPath

F(seq, frag, more, qos, iv) ==
    [seq |-> seq, frag |-> frag, more |-> more, qos |-> qos,
     idx |-> CHOOSE i \in KeyIdx : TRUE, iv |-> iv]

\* Two whole frames, the second QoS, and a third in three fragments.
First  == F(1, 0, FALSE, FALSE, 2)
Second == F(2, 0, FALSE, TRUE, 3)
Start  == F(3, 0, TRUE, FALSE, 3)
Middle == F(3, 1, TRUE, FALSE, 4)
End    == F(3, 2, FALSE, FALSE, 5)

\* What the driver tells apart with each cipher.
MCFrame == [none |-> {First, Second, Start, Middle, End},
            wep  |-> {Start, End},
            tkip |-> {First, Second},
            ccmp |-> {First, Second, Start}]

\* Two frames of which the receiver gets the first and the second fragment.
MCTwoFrames == [none |-> {Start, F(4, 1, FALSE, FALSE, 3)}]

\* Packets alone, in front of a bad event and in front of a clipped packet.
MCShape == {<<"data">>, <<"data", "badevent">>, <<"data", "clipped">>}
=============================================================================
