----------------------------- MODULE PhotoStore -----------------------------
(***************************************************************************)
(* What the photo store of hvaxd promises, whoever uses it: a photo is a   *)
(* number that is handed out once, it holds one content at a time, no two  *)
(* photos hold the same content, and a photo's content is only ever        *)
(* replaced by one that supersedes it.  Gallery implements it with hash    *)
(* map, slots and master files; Engine implements it with locks.           *)
(***************************************************************************)
EXTENDS Naturals

CONSTANTS
    Content,     \* contents a photograph can have
    None,        \* what a number without a photo holds
    Supersedes,  \* pairs <<new, old>>: new may replace old
    MaxPhotos    \* bound: numbers ever handed out

VARIABLES
    count,       \* numbers handed out
    held         \* what each photo holds

store == <<count, held>>

Number == 1 .. MaxPhotos

Stored(c) == \E i \in Number : held[i] = c

Init ==
    /\ count = 0
    /\ held = [i \in Number |-> None]

Add(c) ==
    /\ count < MaxPhotos
    /\ ~ Stored(c)
    /\ count' = count + 1
    /\ held' = [held EXCEPT ![count + 1] = c]

Replace(i, c) ==
    /\ held[i] # None
    /\ ~ Stored(c)
    /\ <<c, held[i]>> \in Supersedes
    /\ held' = [held EXCEPT ![i] = c]
    /\ UNCHANGED count

Delete(i) ==
    /\ held[i] # None
    /\ held' = [held EXCEPT ![i] = None]
    /\ UNCHANGED count

Next ==
    \/ \E c \in Content : Add(c)
    \/ \E i \in Number, c \in Content : Replace(i, c)
    \/ \E i \in Number : Delete(i)

Spec == Init /\ [][Next]_store
=============================================================================
