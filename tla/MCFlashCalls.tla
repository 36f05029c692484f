----------------------------- MODULE MCFlashCalls -----------------------------
(* Instances of FlashCalls for TLC. *)
EXTENDS FlashCalls, FiniteSets

MCOffsets     == 0 .. Size - 1
MCDemoOffsets == 0 .. Size + 1   \* beyond the partition, as flash_demo allows
MCAllOffsets  == -1 .. Size

MCBadSets == { S \in SUBSET Block : Cardinality(S) <= 1 }

(* No bad block; the first, one within, the last; two within. *)
MCBadRun == { {}, {0}, {1}, {3}, {1, 2} }

Number == CHOOSE f \in [Client -> 1 .. Cardinality(Client)] :
            \A c, d \in Client : f[c] = f[d] => c = d
MCUserData == [c \in Client |-> [i \in 0 .. Size |-> 100 * Number[c] + i]]
==============================================================================
