------------------------------- MODULE People -------------------------------
(***************************************************************************)
(* What the routes below /v1/identities answer (src/store/identity.cpp,    *)
(* src/http/server.cpp), each under one shared lock: the list of people,   *)
(* one of them, their faces, who is seen with whom and where, when, and    *)
(* whose face an image resembles.                                          *)
(*                                                                         *)
(* A census is a record: per row the identity (0 for none), photo and time *)
(* of a live face that passed the gate; the live identities; the hidden    *)
(* ones; per identity the score of its centroid.  Members mirror the rows, *)
(* as MembershipMirrorsRefs of Gallery says.                               *)
(***************************************************************************)
EXTENDS Ranking

CONSTANTS
    Everyone,   \* a limit no list of a census reaches
    Limits,     \* limits of pages and searches, and floors of scores
    Bucket      \* a width of the buckets of a timeline, in the unit of time

ASSUME PeopleBounds == Everyone \in Nat /\ Limits \subseteq Nat /\ Bucket \in Nat \ {0}

Members(c, id) == {r \in DOMAIN c.who : c.who[r] = id}
InPhoto(c, i)  == {r \in DOMAIN c.who : c.photo[r] = i}
Photos(c, id)  == {c.photo[r] : r \in Members(c, id)}

(* identity_live, and what a caller without the identity key may see.      *)
MayBeSeen(c, id, key) == id \in c.ids /\ (key \/ id \notin c.hidden)

(* list_identities, by size; ties by id.                                   *)
ListIdentities(c, offset, limit, key) ==
    LET size == [id \in c.ids |-> Cardinality(Members(c, id))]
    IN  Page(Ranked({id \in c.ids : MayBeSeen(c, id, key)}, size), offset, limit)

(* identity_faces, by time; ties by row.                                   *)
IdentityFaces(c, id, offset, limit, key) ==
    IF ~ MayBeSeen(c, id, key) THEN <<>> ELSE Page(Ranked(Members(c, id), c.time), offset, limit)

Others(c, id, key) ==
    {p \in (c.ids \ {id}) \X Photos(c, id) :
        /\ \E o \in InPhoto(c, p[2]) : c.who[o] = p[1]
        /\ key \/ p[1] \notin c.hidden}

(* Identities by how often they were met; ties by id.                      *)
ByCount(shared) ==
    LET ids == Ranked(DOMAIN shared, shared)
    IN  [i \in DOMAIN ids |-> [id |-> ids[i], shared |-> shared[ids[i]]]]

(* Mistake: pairs of faces are counted, without std::unique.               *)
CooccurringFaces(c, id, limit, key) ==
    LET pairs(other) == {f \in Members(c, id) \X Members(c, other) : c.photo[f[1]] = c.photo[f[2]]}
        met == {p[1] : p \in Others(c, id, key)}
    IN  IF ~ MayBeSeen(c, id, key) THEN <<>>
        ELSE Page(ByCount([o \in met |-> Cardinality(pairs(o))]), 0, limit)

(* cooccurring: photos shared with each other identity, most first.        *)
Cooccurring(c, id, limit, key) ==
    LET pairs == Others(c, id, key)
        met   == {p[1] : p \in pairs}
    IN  IF ~ MayBeSeen(c, id, key) THEN <<>>
        ELSE Page(ByCount([o \in met |-> Cardinality({p \in pairs : p[1] = o})]), 0, limit)

(* shared_images: the photos, newest first, with the faces of both.        *)
SharedImages(c, id, other, offset, limit, key) ==
    LET photos == {i \in Photos(c, id) : \E o \in InPhoto(c, i) : c.who[o] = other}
        faces(i, who) == {r \in InPhoto(c, i) : c.who[r] = who}
        ranked == Ranked(photos, [i \in photos |-> i])
        none   == id = other \/ ~ MayBeSeen(c, id, key) \/ ~ MayBeSeen(c, other, key)
    IN  IF none THEN [total |-> 0, images |-> <<>>]
        ELSE [total  |-> Cardinality(photos),
              images |-> Page([k \in DOMAIN ranked |-> [photo |-> ranked[k],
                                                        faces |-> faces(ranked[k], id),
                                                        others |-> faces(ranked[k], other)]], offset, limit)]

(* timeline: faces per bucket of time.                                     *)
Timeline(c, id, bucket, key) ==
    LET start(r) == (c.time[r] \div bucket) * bucket
    IN  IF ~ MayBeSeen(c, id, key) \/ bucket = 0 THEN {}
        ELSE {[start |-> s, faces |-> Cardinality({r \in Members(c, id) : start(r) = s})] :
                 s \in {start(r) : r \in Members(c, id)}}

(* search_identities                                                       *)
SearchIdentities(c, k, floor, key) == TopK({id \in c.ids : MayBeSeen(c, id, key)}, k, floor, c.score)

-----------------------------------------------------------------------------
(* What the routes promise together *)

(* Two pages hold what one page of all would, in the same order.           *)
Pages(list(_, _), n) == list(0, n) \o list(n, Everyone) = list(0, Everyone)

(* A hidden identity is nowhere in an answer to a caller without the key.  *)
NothingHidden(c) ==
    LET gone(id) == id \in c.hidden
        ids(s)   == {s[i] : i \in DOMAIN s}
    IN  /\ \A id \in ids(ListIdentities(c, 0, Everyone, FALSE)) : ~ gone(id)
        /\ \A id \in ids(SearchIdentities(c, Everyone, 0, FALSE)) : ~ gone(id)
        /\ \A id \in c.ids :
              /\ \A e \in ids(Cooccurring(c, id, Everyone, FALSE)) : ~ gone(e.id)
              /\ gone(id) =>
                    /\ IdentityFaces(c, id, 0, Everyone, FALSE) = <<>>
                    /\ Cooccurring(c, id, Everyone, FALSE) = <<>>
                    /\ Timeline(c, id, Bucket, FALSE) = {}
                    /\ \A o \in c.ids : SharedImages(c, id, o, 0, Everyone, FALSE).total = 0
                                        /\ SharedImages(c, o, id, 0, Everyone, FALSE).total = 0

(* The answers agree: who is seen with whom does not depend on whom one    *)
(* asks, the counts are those of the photos listed, the timeline adds up   *)
(* to the faces.                                                           *)
AnswersAgree(c, key) ==
    \A id \in {i \in c.ids : MayBeSeen(c, i, key)} :
        LET met   == Cooccurring(c, id, Everyone, key)
            times == Timeline(c, id, Bucket, key)
        IN  /\ MapThenSumSet(LAMBDA b : b.faces, times) = Len(IdentityFaces(c, id, 0, Everyone, key))
            /\ \A i \in DOMAIN met :
                  LET back   == Cooccurring(c, met[i].id, Everyone, key)
                      shared == SharedImages(c, id, met[i].id, 0, Everyone, key)
                  IN  /\ [id |-> id, shared |-> met[i].shared] \in ToSet(back)
                      /\ shared.total = met[i].shared /\ Len(shared.images) = shared.total
                      /\ \A k \in DOMAIN shared.images :
                            shared.images[k].faces # {} /\ shared.images[k].others # {}
            /\ \A o \in c.ids \ {id} :
                  SharedImages(c, id, o, 0, Everyone, key).total > 0 => \E i \in DOMAIN met : met[i].id = o

(* The k identities found are the best of those that may be seen.          *)
BestPeople(c, k, floor, key) ==
    LET found == ToSet(SearchIdentities(c, k, floor, key))
        all   == {id \in c.ids : MayBeSeen(c, id, key) /\ c.score[id] >= floor}
    IN  /\ found \subseteq all
        /\ Cardinality(found) = IF Cardinality(all) < k THEN Cardinality(all) ELSE k
        /\ \A a \in found, b \in all \ found : c.score[a] >= c.score[b]

PeopleAreRight(c) ==
    /\ NothingHidden(c)
    /\ \A key \in BOOLEAN :
          /\ AnswersAgree(c, key)
          /\ \A n \in Limits :
                /\ Pages(LAMBDA o, l : ListIdentities(c, o, l, key), n)
                /\ \A id \in c.ids : Pages(LAMBDA o, l : IdentityFaces(c, id, o, l, key), n)
                /\ \A floor \in Limits : BestPeople(c, n, floor, key)
=============================================================================
