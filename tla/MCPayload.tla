----------------------------- MODULE MCPayload -----------------------------
(* Instances of Payload with the sizes of the program. *)
EXTENDS Payload

CONSTANT Other  \* the id of an entry of another vault

MiB == 1024 * 1024

MCTitle == {<<"mail", 1>>, <<"mail", 2>>}
MCNotes == {"short", "huge"}
MCMaxPayload == 32 * MiB
MCMaxFile == 64 * MiB

\* A short entry and an unknown field come to the floor exactly, without the
\* prefix; one huge entry comes to the limit with it.
MCBytes == [short |-> 1024 - 6 - 60, huge |-> 32 * MiB - 4 - 60]

MCMinMem == 19 * MiB
MCMaxMem == 2047 * MiB  \* TLC's integers end below 4 GiB
MCCosts == {[ops |-> 2, mem |-> 38 * MiB], [ops |-> 1, mem |-> 256 * MiB],
            [ops |-> 3, mem |-> 8 * MiB], [ops |-> 3, mem |-> 2047 * MiB + 1]}
MCTuneCeiling == 38 * MiB

\* Two rows are taken over, one is not.
MCFiles == {<<[id |-> NoId, title |-> <<"mail", 1>>, notes |-> "huge"],
              [id |-> Other, title |-> NoTitle, notes |-> "short"],
              [id |-> Other, title |-> <<"mail", 2>>, notes |-> "short"]>>}

MCLengths == 0 .. 9000
=============================================================================
