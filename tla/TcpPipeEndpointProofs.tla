----------------------- MODULE TcpPipeEndpointProofs ------------------------
(***************************************************************************)
(* Proofs about the TCP endpoints, for any operations, sizes and timeouts. *)
(*                                                                         *)
(* The invariant has two parts.  ListInv is about the lists: the oldest    *)
(* operation is the one that is in flight, in the phase that its bytes     *)
(* show.  StreamInv is about the bytes: the frames of a list follow each   *)
(* other in its stream, and a read that has begun has the place, and when  *)
(* its header is there the size, of one write of the peer.                 *)
(***************************************************************************)
EXTENDS TcpPipeEndpoint, WellFoundedInduction, TLAPS

\* A set of numbers that is not empty has a least one.
LEMMA LeastNumber ==
  ASSUME NEW S \in SUBSET Nat, S # {}
  PROVE  \E x \in S : \A y \in S : x <= y
<1> DEFINE Less == OpToRel(<, Nat)
<1>1. \A x, y \in Nat : <<y, x>> \in Less <=> y < x
  BY Zenon DEF OpToRel
<1>2. IsWellFoundedOn(Less, Nat)
  BY NatLessThanWellFounded, Zenon
<1> HIDE DEF Less
<1>3. PICK x \in S : \A y \in S : ~(<<y, x>> \in Less)
  BY <1>2, WFMin, Zenon
<1>4. \A y \in S : ~(y < x) /\ y \in Nat /\ x \in Nat
  BY <1>1, <1>3, Zenon
<1>5. \A y \in S : x <= y
  BY <1>4
<1> QED  BY <1>5, Zenon

-----------------------------------------------------------------------------
(* The TCP endpoints.                                                      *)

TcpLists == Ends \X Kinds

\* A list that is worked on, and what its handlers find: the oldest operation is the one that
\* has begun, and it is in the phase of the socket operation that is in flight
Phase(l) ==
  \A o \in queue[l] :
    IF \A p \in queue[l] : p = o \/ Earlier(o, p)
    THEN /\ flight[l] = "header" <=> transferred[o] < HeaderSize
         /\ flight[l] = "payload" => /\ size[o] > 0
                                     /\ transferred[o] < HeaderSize + size[o]
    ELSE transferred[o] = 0

\* Calls come in the order of their numbers; only what was called is listed or has bytes
Called(o) ==
  /\ \A p \in TcpOps : Earlier(p, o) /\ result[o] # "idle" => result[p] # "idle"
  /\ o \in queue[List(o)] \/ transferred[o] > 0 =>
       result[o] # "idle" /\ (Kind(o) = "write" => size[o] > 0)

ListInv ==
  /\ TypeOK /\ ListsAreDriven
  /\ \A l \in TcpLists : Phase(l)
  /\ \A o \in TcpOps : Called(o)

Begun(o) == transferred[o] > 0
WholeFrame(o) == size[o] > 0 /\ transferred[o] = HeaderSize + size[o]
EndOf(o) == place[o] + transferred[o]

\* Where operation o is in its stream: the operations of a list follow each other without a
\* gap, and one that is not whole is the last
Placed(o) ==
  /\ transferred[o] <= HeaderSize + size[o]
  /\ EndOf(o) <= moved[List(o)]
  /\ \A p \in TcpOps : Begun(p) /\ Earlier(o, p) => WholeFrame(o) /\ EndOf(o) <= place[p]
  /\ \/ EndOf(o) = moved[List(o)]
     \/ WholeFrame(o) /\ \E p \in TcpOps : Begun(p) /\ Earlier(o, p) /\ place[p] = EndOf(o)
  /\ \A p \in queue[List(o)] : p = o \/ Earlier(o, p)
  /\ WholeFrame(o) \/ o \in queue[List(o)] \/ (queue[List(o)] = {} /\ ~open[End(o)])

\* A stream has the bytes of the operations of its list and no others
Filled(l) ==
  moved[l] > 0 => /\ \E o \in TcpOps : Begun(o) /\ List(o) = l /\ place[o] = 0
                  /\ \E o \in TcpOps : Begun(o) /\ List(o) = l /\ EndOf(o) = moved[l]

\* What read r knows of the size of the frame that write w made
Sized(r, w) ==
  size[r] = IF transferred[r] >= HeaderSize /\ size[w] <= MaxTransferMessageSize
            THEN size[w] ELSE 0

StreamInv ==
  /\ \A o \in TcpOps : Begun(o) => Placed(o)
  /\ \A o \in TcpOps : result[o] = "success" => WholeFrame(o)
  /\ \A l \in TcpLists : Filled(l)
  /\ \A r \in TcpOps : Kind(r) = "read" =>
       /\ transferred[r] < HeaderSize => size[r] = 0
       /\ Begun(r) => \E w \in TcpOps : Reads(r, w) /\ Sized(r, w)

TcpInv == ListInv /\ StreamInv

-----------------------------------------------------------------------------
\* Operations of one list are ordered by their numbers.
LEMMA TcpOrder ==
  /\ \A o \in TcpOps : End(o) \in Ends /\ Kind(o) \in Kinds /\ List(o) \in TcpLists
  /\ \A o, p \in TcpOps : List(o) = List(p) => o = p \/ Earlier(o, p) \/ Earlier(p, o)
  /\ \A o, p \in TcpOps : Earlier(o, p) => List(o) = List(p) /\ o # p /\ ~Earlier(p, o)
  /\ \A o, p, q \in TcpOps : Earlier(o, p) /\ Earlier(p, q) => Earlier(o, q)
<1>1. \A o \in TcpOps : /\ o = <<o[1], o[2], o[3]>> /\ o[1] \in {"a", "b"} /\ o[2] \in {"write", "read"}
                        /\ o[3] \in Nat
  BY TcpNames
<1>2. \A o \in TcpOps : End(o) \in Ends /\ Kind(o) \in Kinds /\ List(o) \in TcpLists
  BY <1>1, Zenon DEF End, Kind, Ends, Kinds, List, TcpLists
<1>3. ASSUME NEW o \in TcpOps, NEW p \in TcpOps
      PROVE  /\ List(o) = List(p) => o = p \/ Earlier(o, p) \/ Earlier(p, o)
             /\ Earlier(o, p) => List(o) = List(p) /\ o # p /\ ~Earlier(p, o)
             /\ \A q \in TcpOps : Earlier(o, p) /\ Earlier(p, q) => Earlier(o, q)
  BY <1>1 DEF End, Kind, Earlier, List
<1> QED  BY <1>2, <1>3, Zenon

\* A list that is not empty has an oldest operation.
LEMMA TcpOldest ==
  ASSUME NEW S \in SUBSET TcpOps, NEW l, \A o \in S : List(o) = l, S # {}
  PROVE  /\ Oldest(S) \in S
         /\ \A p \in S : p = Oldest(S) \/ Earlier(Oldest(S), p)
         /\ \A o \in S : (\A p \in S : p = o \/ Earlier(o, p)) => o = Oldest(S)
<1> DEFINE Ids == {o[3] : o \in S}
<1>1. Ids \in SUBSET Nat /\ Ids # {}
  BY TcpNames, Zenon
<1>2. \E x \in Ids : \A y \in Ids : x <= y
  <2> HIDE DEF Ids
  <2> QED  BY <1>1, LeastNumber, Zenon
<1>3. PICK o \in S : \A p \in S : o[3] <= p[3]
  BY <1>2, Zenon
<1>4. \A p \in S : ~Earlier(p, o)
  BY <1>1, <1>3, TcpNames DEF Earlier
<1>5. \A p \in S : p = o \/ Earlier(o, p)
  BY <1>4, TcpOrder, Zenon
<1>6. /\ Oldest(S) \in S
      /\ \A p \in S : p = Oldest(S) \/ Earlier(Oldest(S), p)
  BY <1>5, Zenon DEF Oldest
<1> QED  BY <1>6, TcpOrder, Zenon

\* What the end of a handler does to list l: it starts the next socket operation for the oldest
\* operation, which has n bytes now and size s, ends all operations because the socket is
\* closed, or ends the oldest and starts the next
GoesOn(l, n, s) ==
  /\ queue'[l] = queue[l] /\ result' = result
  /\ flight'[l] = IF n < HeaderSize THEN "header" ELSE "payload"
  /\ n >= HeaderSize => IF flight[l] = "header" THEN s # 0 ELSE n < HeaderSize + s

EndsAll(l) == queue'[l] = {} /\ flight'[l] = "none" /\ ~open'[l[1]]

EndsOldest(l) ==
  LET rest == queue[l] \ {Oldest(queue[l])}
  IN  queue'[l] = rest /\ flight'[l] = IF rest = {} THEN "none" ELSE "header"

\* What it leaves alone, and the promises it sets
Settles(l, whole) ==
  /\ \A m \in TcpLists : m # l => queue'[m] = queue[m] /\ flight'[m] = flight[m]
  /\ \A e \in Ends : open'[e] => open[e]
  /\ \A o \in TcpOps :
       /\ result'[o] = result[o] \/ (o \in queue[l] /\ result'[o] \in Completed)
       /\ o \in queue[l] /\ o \notin queue'[l] => result'[o] # "pending"
       /\ result'[o] = "success" =>
            result[o] = "success" \/ (whole /\ o = Oldest(queue[l]))

HandlerTypes ==
  /\ open' \in [Ends -> BOOLEAN]
  /\ byFail' \in [Ends -> BOOLEAN]
  /\ callback' \in [Ends -> {"none", "stored", "posted"}]
  /\ queue' \in [TcpLists -> SUBSET TcpOps]
  /\ flight' \in [TcpLists -> {"none", "header", "payload"}]
  /\ result' \in [TcpOps -> {"idle", "pending"} \cup Completed]

\* invalidate_unsafe leaves the socket closed, whoever closed it.
LEMMA TcpCloses ==
  ASSUME TypeOK, NEW e \in Ends, NEW byCancel \in BOOLEAN, InvalidateUnsafe(e, byCancel)
  PROVE  /\ open' \in [Ends -> BOOLEAN]
         /\ byFail' \in [Ends -> BOOLEAN]
         /\ callback' \in [Ends -> {"none", "stored", "posted"}]
         /\ ~open'[e]
         /\ \A d \in Ends : open'[d] => open[d]
<1>1. open' = [open EXCEPT ![e] = FALSE] /\ open \in [Ends -> BOOLEAN]
  BY Zenon DEF InvalidateUnsafe, TypeOK
<1>2. open' \in [Ends -> BOOLEAN] /\ ~open'[e] /\ \A d \in Ends : open'[d] => open[d]
  BY <1>1, Zenon
<1>3. (~byCancel) \in BOOLEAN
  BY Zenon
<1>4. /\ byFail' = [byFail EXCEPT ![e] = IF open[e] THEN ~byCancel ELSE byFail[e]]
      /\ byFail \in [Ends -> BOOLEAN]
  BY Zenon DEF InvalidateUnsafe, TypeOK
<1>5. byFail' \in [Ends -> BOOLEAN]
  BY <1>3, <1>4, Zenon
<1>6. callback' \in [Ends -> {"none", "stored", "posted"}]
  BY Zenon DEF InvalidateUnsafe, TypeOK
<1> QED  BY <1>2, <1>5, <1>6, Zenon

\* complete_all_operations_unsafe empties the list and sets what is pending in it.
LEMMA TcpEndsAll ==
  ASSUME TypeOK, NEW e \in Ends, NEW kind \in Kinds, NEW r \in {"failed", "canceled"},
         CompleteAll(e, kind, r), ~open'[e], \A d \in Ends : open'[d] => open[d],
         open' \in [Ends -> BOOLEAN],
         byFail' \in [Ends -> BOOLEAN],
         callback' \in [Ends -> {"none", "stored", "posted"}]
  PROVE  EndsAll(<<e, kind>>) /\ Settles(<<e, kind>>, FALSE) /\ HandlerTypes
<1>1. <<e, kind>> \in TcpLists
  BY Zenon DEF TcpLists
<1>2. EndsAll(<<e, kind>>)
  BY <1>1, Zenon DEF CompleteAll, TypeOK, EndsAll, TcpLists
<1>3. HandlerTypes
  BY <1>1, Zenon DEF CompleteAll, TypeOK, Settle, Completed, HandlerTypes, TcpLists
<1>4. Settles(<<e, kind>>, FALSE)
  BY <1>1, Zenon DEF CompleteAll, TypeOK, Settle, Completed, Settles, TcpLists
<1> QED  BY <1>2, <1>3, <1>4, Zenon

\* The end of a handler that got bytes.
LEMMA TcpContinues ==
  ASSUME TypeOK, NEW e \in Ends, NEW kind \in Kinds, NEW n \in Nat, NEW s \in Nat,
         Continue(e, kind, n, s), flight[<<e, kind>>] # "none",
         Oldest(queue[<<e, kind>>]) \in queue[<<e, kind>>]
  PROVE  LET l == <<e, kind>>
             whole == flight[l] = "payload" /\ n >= HeaderSize + s
         IN  /\ GoesOn(l, n, s) \/ EndsAll(l) \/ (whole /\ EndsOldest(l))
             /\ Settles(l, whole) /\ HandlerTypes
<1> DEFINE l == <<e, kind>>
           whole == flight[l] = "payload" /\ n >= HeaderSize + s
<1>0. l \in TcpLists
  BY Zenon DEF TcpLists
<1>1. ASSUME Settles(l, FALSE) PROVE Settles(l, whole)
  BY <1>1, Zenon DEF Settles
<1>2. CloseResult(e) \in {"failed", "canceled"}
  BY Zenon DEF CloseResult
<1>3. ASSUME NEW what \in {"header", "payload"}, StartNext(e, kind, what)
      PROVE  /\ EndsAll(l) \/ (UNCHANGED <<queue, result>> /\ flight'[l] = what)
             /\ Settles(l, FALSE) /\ HandlerTypes
  <2>1. CASE open[e]
    <3>1. /\ flight' = [flight EXCEPT ![l] = what]
          /\ UNCHANGED <<open, byFail, callback, queue, result>>
      BY <1>3, <2>1, Zenon DEF StartNext
    <3>2. flight \in [TcpLists -> {"none", "header", "payload"}]
      BY Zenon DEF TypeOK, TcpLists
    <3>3. flight' \in [TcpLists -> {"none", "header", "payload"}]
      BY <1>0, <3>1, <3>2, Zenon
    <3>4. flight'[l] = what /\ \A m \in TcpLists : m # l => flight'[m] = flight[m]
      BY <1>0, <3>1, <3>2, Zenon
    <3>5. Settles(l, FALSE)
      BY <3>1, <3>4, Zenon DEF Settles
    <3>6. HandlerTypes
      BY <3>1, <3>3, Zenon DEF HandlerTypes, TypeOK, TcpLists
    <3> QED  BY <3>1, <3>4, <3>5, <3>6, Zenon
  <2>2. CASE ~open[e]
    <3>1. CompleteAll(e, kind, CloseResult(e)) /\ UNCHANGED <<open, byFail, callback>>
      BY <1>3, <2>2, Zenon DEF StartNext
    <3> QED  BY <1>2, <2>2, <3>1, TcpEndsAll, Zenon DEF TypeOK
  <2> QED  BY <2>1, <2>2, Zenon
<1>4. CASE n < HeaderSize
  <2>1. StartNext(e, kind, "header")
    BY <1>4, TcpNames, Zenon DEF Continue
  <2> QED  BY <1>1, <1>3, <1>4, <2>1, TcpNames DEF GoesOn
<1>5. CASE n >= HeaderSize /\ flight[l] = "header" /\ s = 0
  <2>0. ~(n < HeaderSize)
    BY <1>5, TcpNames
  <2>1. InvalidateUnsafe(e, FALSE) /\ CompleteAll(e, kind, "failed")
    BY <1>5, <2>0, Zenon DEF Continue
  <2>2. FALSE \in BOOLEAN
    BY Zenon
  <2>3. /\ open' \in [Ends -> BOOLEAN]
        /\ byFail' \in [Ends -> BOOLEAN]
        /\ callback' \in [Ends -> {"none", "stored", "posted"}]
        /\ ~open'[e]
        /\ \A d \in Ends : open'[d] => open[d]
    BY <2>1, <2>2, TcpCloses, Zenon
  <2> QED  BY <1>1, <2>1, <2>3, TcpEndsAll, Zenon
<1>6. CASE n >= HeaderSize /\ flight[l] = "header" /\ s # 0
  <2>1. StartNext(e, kind, "payload") /\ ~(n < HeaderSize)
    BY <1>6, TcpNames DEF Continue
  <2> QED  BY <1>1, <1>3, <1>6, <2>1, Zenon DEF GoesOn
<1>7. CASE n >= HeaderSize /\ flight[l] = "payload" /\ n < HeaderSize + s
  <2>1. StartNext(e, kind, "payload") /\ ~(n < HeaderSize)
    BY <1>7, TcpNames DEF Continue
  <2> QED  BY <1>1, <1>3, <1>7, <2>1, Zenon DEF GoesOn
<1>8. CASE n >= HeaderSize /\ flight[l] = "payload" /\ n >= HeaderSize + s
  <2>1. FinishOperation(e, kind)
    BY <1>8, TcpNames DEF Continue
  <2>2. EndsAll(l) \/ EndsOldest(l)
    BY <1>0, <2>1, Zenon DEF FinishOperation, EndsAll, EndsOldest, TypeOK, TcpLists
  <2>3. HandlerTypes
    BY <1>0, <1>2, <2>1, Zenon DEF FinishOperation, HandlerTypes, Settle, Completed, TypeOK, TcpLists
  <2>4. Settles(l, TRUE)
    BY <1>0, <1>2, <2>1, Zenon DEF FinishOperation, Settles, Settle, Completed, TypeOK, TcpLists
  <2> QED  BY <1>8, <2>2, <2>3, <2>4, Zenon DEF Settles
<1>9. flight[l] \in {"header", "payload"}
  BY <1>0, Zenon DEF TypeOK, TcpLists
<1> QED  BY <1>4, <1>5, <1>6, <1>7, <1>8, <1>9, TcpNames

\* The oldest operation o of list l gets n bytes and has size s then
Moves(l, o, n, s) ==
  /\ o = Oldest(queue[l]) /\ flight[l] # "none"
  /\ n \in 1..Remaining(o) /\ s \in Nat
  /\ l[2] = "write" \/ transferred[o] + n # HeaderSize => s = size[o]
  /\ l[2] = "read" =>
       /\ moved[l] + n <= moved[<<Peer(l[1]), "write">>]
       /\ transferred[o] + n = HeaderSize => s = SizeInHeader(Peer(l[1]), PlaceOf(o))
  /\ Transfer(o, n)
  /\ size' = [size EXCEPT ![o] = s]
  /\ Continue(l[1], l[2], transferred[o] + n, s)
  /\ UNCHANGED timed

\* An operation is in the list of its end and kind, and a list that is worked on is not empty.
LEMMA ListedInList ==
  ASSUME ListInv, NEW l \in TcpLists
  PROVE  /\ \A p \in queue[l] : p \in TcpOps /\ List(p) = l
         /\ flight[l] \in {"none", "header", "payload"}
         /\ flight[l] = "none" <=> queue[l] = {}
<1>1. PICK e \in Ends, kind \in Kinds : l = <<e, kind>>
  BY DEF TcpLists
<1>2. \A p \in queue[l] : p \in TcpOps
  BY Zenon DEF ListInv, TypeOK, TcpLists
<1>3. \A p \in queue[l] : End(p) = e /\ Kind(p) = kind
  BY <1>1, <1>2, Zenon DEF ListInv, ListsAreDriven
<1>4. flight[l] = "none" <=> queue[l] = {}
  BY <1>1, Zenon DEF ListInv, ListsAreDriven
<1>5. flight[l] \in {"none", "header", "payload"}
  BY Zenon DEF ListInv, TypeOK, TcpLists
<1> QED  BY <1>1, <1>2, <1>3, <1>4, <1>5, Zenon DEF List

\* The bytes are for the header or for the payload, and not too many.
LEMMA MovesWithinFrame ==
  ASSUME ListInv, NEW l \in TcpLists, NEW o, NEW n, NEW s, Moves(l, o, n, s)
  PROVE  /\ o \in TcpOps /\ o \in queue[l] /\ List(o) = l /\ n \in Nat /\ n > 0
         /\ \A p \in queue[l] : p = o \/ (Earlier(o, p) /\ transferred[p] = 0)
         /\ transferred[o] \in Nat /\ size[o] \in Nat
         /\ flight[l] = "header" => transferred[o] + n <= HeaderSize
         /\ flight[l] = "payload" => /\ transferred[o] + n <= HeaderSize + s
                                     /\ s = size[o] /\ s > 0
                                     /\ transferred[o] >= HeaderSize
         /\ flight[l] \in {"header", "payload"}
<1>1. \A p \in queue[l] : p \in TcpOps /\ List(p) = l
  BY ListedInList, Zenon
<1>2. queue[l] # {} /\ flight[l] \in {"header", "payload"}
  BY ListedInList, Zenon DEF Moves
<1>3. o \in queue[l] /\ \A p \in queue[l] : p = o \/ Earlier(o, p)
  BY <1>1, <1>2, TcpOldest, Zenon DEF Moves
<1>4. Phase(l) /\ transferred[o] \in Nat /\ size[o] \in Nat
  BY <1>1, <1>3, Zenon DEF ListInv, TypeOK
<1>5. \A p \in queue[l] : p # o => transferred[p] = 0
  <2> SUFFICES ASSUME NEW p \in queue[l], p # o PROVE transferred[p] = 0
    BY Zenon
  <2>1. Earlier(o, p) /\ ~Earlier(p, o)
    BY <1>1, <1>3, TcpOrder, Zenon
  <2> QED  BY <1>3, <1>4, <2>1, Zenon DEF Phase
<1>6. /\ flight[l] = "header" <=> transferred[o] < HeaderSize
      /\ flight[l] = "payload" => /\ size[o] > 0
                                  /\ transferred[o] < HeaderSize + size[o]
  BY <1>3, <1>4, Zenon DEF Phase
<1>7. n \in Nat /\ n > 0
  BY <1>4, TcpNames DEF Moves, Remaining
<1>8. CASE flight[l] = "header"
  BY <1>1, <1>3, <1>4, <1>5, <1>6, <1>7, <1>8, TcpNames DEF Moves, Remaining
<1>9. CASE flight[l] = "payload"
  BY <1>1, <1>3, <1>4, <1>5, <1>6, <1>7, <1>9, TcpNames DEF Moves, Remaining
<1> QED  BY <1>2, <1>8, <1>9, Zenon

\* What moves, and what the handler does then.
LEMMA MovesEffect ==
  ASSUME ListInv, NEW l \in TcpLists, NEW o, NEW n, NEW s, Moves(l, o, n, s)
  PROVE  LET all == transferred[o] + n
             whole == flight[l] = "payload" /\ all = HeaderSize + s
         IN  /\ GoesOn(l, all, s) \/ EndsAll(l) \/ (whole /\ EndsOldest(l))
             /\ Settles(l, whole) /\ HandlerTypes
             /\ transferred' = [transferred EXCEPT ![o] = all]
             /\ size' = [size EXCEPT ![o] = s]
             /\ place' = [place EXCEPT ![o] = IF transferred[o] = 0 THEN moved[l] ELSE place[o]]
             /\ moved' = [moved EXCEPT ![l] = moved[l] + n]
             /\ TypeOK'
<1> DEFINE all == transferred[o] + n
           whole == flight[l] = "payload" /\ all = HeaderSize + s
<1>1. /\ o \in TcpOps /\ o \in queue[l] /\ List(o) = l /\ n \in Nat /\ n > 0
      /\ transferred[o] \in Nat /\ s \in Nat
      /\ flight[l] = "payload" => all <= HeaderSize + s
  BY MovesWithinFrame, Zenon DEF Moves
<1>2. l = <<l[1], l[2]>> /\ l[1] \in Ends /\ l[2] \in Kinds
  BY DEF TcpLists
<1>3. PICK e \in Ends, kind \in Kinds : l = <<e, kind>> /\ l[1] = e /\ l[2] = kind
  BY <1>2, Zenon
<1>4. /\ GoesOn(l, all, s) \/ EndsAll(l) \/ (whole /\ EndsOldest(l))
      /\ Settles(l, whole) /\ HandlerTypes
  <2>1. /\ Continue(e, kind, all, s) /\ all \in Nat /\ s \in Nat /\ TypeOK
        /\ flight[<<e, kind>>] # "none"
        /\ Oldest(queue[<<e, kind>>]) \in queue[<<e, kind>>]
    BY <1>1, <1>3 DEF Moves, ListInv
  <2> DEFINE w == flight[<<e, kind>>] = "payload" /\ all >= HeaderSize + s
  <2>2. /\ GoesOn(<<e, kind>>, all, s) \/ EndsAll(<<e, kind>>) \/ (w /\ EndsOldest(<<e, kind>>))
        /\ Settles(<<e, kind>>, w) /\ HandlerTypes
    <3> HIDE DEF all
    <3> QED  BY <2>1, TcpContinues, Zenon
  <2>3. w <=> whole
    BY <1>1, <1>3, <2>1, TcpNames
  <2> QED  BY <1>3, <2>2, <2>3, Zenon DEF Settles
<1>5. /\ transferred' = [transferred EXCEPT ![o] = all]
      /\ size' = [size EXCEPT ![o] = s]
      /\ place' = [place EXCEPT ![o] = IF transferred[o] = 0 THEN moved[l] ELSE place[o]]
      /\ moved' = [moved EXCEPT ![l] = moved[l] + n]
  BY <1>1, Zenon DEF Moves, Transfer, PlaceOf
<1>6. TypeOK'
  <2>1. TypeOK /\ all \in Nat
    BY <1>1 DEF ListInv
  <2> HIDE DEF all
  <2>2. /\ transferred' \in [TcpOps -> Nat] /\ size' \in [TcpOps -> Nat]
        /\ moved' \in [TcpLists -> Nat]
    BY <1>1, <1>5, <2>1 DEF TypeOK, TcpLists
  <2>3. place' \in [TcpOps -> Nat]
    BY <1>1, <1>5, <2>1, Zenon DEF TypeOK, TcpLists
  <2>4. timed' \in [TcpOps -> BOOLEAN]
    BY <2>1, Zenon DEF TypeOK, Moves
  <2> QED  BY <1>4, <2>2, <2>3, <2>4, Zenon DEF HandlerTypes, TypeOK, TcpLists
<1> QED  BY <1>4, <1>5, <1>6, Zenon

\* An operation is listed while it is pending, also after a step that takes operations out of
\* list l and sets their promises.
LEMMA ShrinkingStaysDriven ==
  ASSUME ListInv, TypeOK', NEW l \in TcpLists, NEW whole, Settles(l, whole), queue'[l] \subseteq queue[l],
         flight'[l] = "none" <=> queue'[l] = {}
  PROVE  ListsAreDriven'
<1>1. ASSUME NEW e \in Ends, NEW kind \in Kinds
      PROVE  /\ flight'[<<e, kind>>] = "none" <=> queue'[<<e, kind>>] = {}
             /\ \A o \in TcpOps : o \in queue'[<<e, kind>>] => End(o) = e /\ Kind(o) = kind
  <2>1. <<e, kind>> \in TcpLists
    BY Zenon DEF TcpLists
  <2>2. /\ flight[<<e, kind>>] = "none" <=> queue[<<e, kind>>] = {}
        /\ \A o \in TcpOps : o \in queue[<<e, kind>>] => End(o) = e /\ Kind(o) = kind
    BY Zenon DEF ListInv, ListsAreDriven
  <2>3. CASE <<e, kind>> = l
    BY <2>2, <2>3, Zenon
  <2>4. CASE <<e, kind>> # l
    <3>1. flight'[<<e, kind>>] = flight[<<e, kind>>] /\ queue'[<<e, kind>>] = queue[<<e, kind>>]
      BY <2>1, <2>4, Zenon DEF Settles
    <3> QED  BY <2>2, <3>1, Zenon
  <2> QED  BY <2>3, <2>4, Zenon
<1>2. ASSUME NEW o \in TcpOps, result'[o] = "pending"  PROVE o \in queue'[List(o)]
  <2>1. result[o] = "pending"
    BY <1>2, Zenon DEF Settles, Completed
  <2>2. PICK m \in TcpLists : m = List(o)
    BY TcpOrder, Zenon
  <2>3. o \in queue[m]
    <3>1. "a" \in Ends /\ "read" \in Kinds
      BY Zenon DEF Ends, Kinds
    <3> QED  BY <2>1, <2>2, <3>1, Zenon DEF ListInv, ListsAreDriven
  <2>4. CASE m = l
    BY <1>2, <2>2, <2>3, <2>4, Zenon DEF Settles
  <2>5. CASE m # l
    BY <2>2, <2>3, <2>5, Zenon DEF Settles
  <2> QED  BY <2>4, <2>5, Zenon
<1> QED  BY <1>1, <1>2, Zenon DEF ListsAreDriven, List, End, Kind

\* Getting bytes leaves the lists in order.
LEMMA MovesKeepsLists ==
  ASSUME ListInv, NEW l \in TcpLists, NEW o, NEW n, NEW s, Moves(l, o, n, s)
  PROVE  ListInv'
<1> DEFINE all == transferred[o] + n
           whole == flight[l] = "payload" /\ all = HeaderSize + s
<1>0. s \in Nat /\ o = Oldest(queue[l])
  BY Zenon DEF Moves
<1>1. /\ o \in TcpOps /\ o \in queue[l] /\ List(o) = l /\ n \in Nat /\ n > 0
      /\ \A p \in queue[l] : p = o \/ (Earlier(o, p) /\ transferred[p] = 0)
      /\ transferred[o] \in Nat /\ size[o] \in Nat
      /\ flight[l] = "header" => all <= HeaderSize
      /\ flight[l] = "payload" => all <= HeaderSize + s /\ s = size[o] /\ s > 0 /\ transferred[o] >= HeaderSize
      /\ flight[l] \in {"header", "payload"}
  BY MovesWithinFrame, Zenon
<1>2. /\ GoesOn(l, all, s) \/ EndsAll(l) \/ (whole /\ EndsOldest(l))
      /\ Settles(l, whole) /\ HandlerTypes
      /\ transferred' = [transferred EXCEPT ![o] = all]
      /\ size' = [size EXCEPT ![o] = s]
      /\ TypeOK'
  BY MovesEffect
<1>3. /\ all \in Nat /\ all > 0
      /\ transferred \in [TcpOps -> Nat] /\ size \in [TcpOps -> Nat]
      /\ \A p \in TcpOps : p # o => transferred'[p] = transferred[p] /\ size'[p] = size[p]
      /\ transferred'[o] = all /\ size'[o] = s
  BY <1>1, <1>2 DEF ListInv, TypeOK
<1> HIDE DEF all, whole
<1>4. /\ queue'[l] \subseteq queue[l]
      /\ flight'[l] = "none" <=> queue'[l] = {}
  <2>1. CASE GoesOn(l, all, s)
    BY <1>1, <2>1, Zenon DEF GoesOn
  <2>2. CASE EndsAll(l)
    BY <2>2, Zenon DEF EndsAll
  <2>3. CASE EndsOldest(l)
    BY <2>3, Zenon DEF EndsOldest
  <2> QED  BY <1>2, <2>1, <2>2, <2>3, Zenon
<1>5. ListsAreDriven'
  BY <1>2, <1>4, ShrinkingStaysDriven, Zenon
<1>6. ASSUME NEW m \in TcpLists, m # l  PROVE Phase(m)'
  <2>1. queue'[m] = queue[m] /\ flight'[m] = flight[m] /\ Phase(m)
    BY <1>2, <1>6, Zenon DEF Settles, ListInv
  <2>2. \A p \in queue[m] : p \in TcpOps /\ p # o
    BY <1>1, <1>6, ListedInList, Zenon
  <2> QED  BY <1>3, <2>1, <2>2, Zenon DEF Phase
<1>7. Phase(l)'
  <2>1. CASE GoesOn(l, all, s)
    <3>1. queue'[l] = queue[l]
      BY <2>1, Zenon DEF GoesOn
    <3>2. ASSUME NEW p \in queue[l], \A q \in queue[l] : q = p \/ Earlier(p, q)
          PROVE  p = o
      BY <1>1, <3>2, ListedInList, TcpOrder, Zenon
    <3>3. \A p \in queue[l] : p # o => p \in TcpOps /\ transferred'[p] = 0
      BY <1>1, <1>3, ListedInList, Zenon
    <3>4. /\ flight'[l] = "header" <=> all < HeaderSize
          /\ flight'[l] = "payload" => s > 0 /\ all < HeaderSize + s
      <4>1. HeaderSize \in Nat /\ s \in Nat
        BY <1>0, TcpNames, Zenon
      <4>2. flight'[l] = "header" <=> all < HeaderSize
        BY <2>1, Zenon DEF GoesOn
      <4>3. ASSUME flight'[l] = "payload" PROVE s > 0 /\ all < HeaderSize + s
        <5>1. all >= HeaderSize
          BY <1>3, <4>1, <4>2, <4>3
        <5>2. IF flight[l] = "header" THEN s # 0 ELSE all < HeaderSize + s
          BY <2>1, <5>1, Zenon DEF GoesOn
        <5>3. CASE flight[l] = "header"
          <6>1. s # 0 /\ all <= HeaderSize
            BY <1>1, <5>2, <5>3, Zenon
          <6> QED  BY <1>3, <4>1, <6>1
        <5>4. CASE flight[l] = "payload"
          BY <1>1, <5>2, <5>4, Zenon
        <5> QED  BY <1>1, <5>3, <5>4, Zenon
      <4> QED  BY <4>2, <4>3, Zenon
    <3> QED  BY <1>1, <1>3, <3>1, <3>2, <3>3, <3>4 DEF Phase
  <2>2. CASE EndsAll(l)
    BY <2>2, Zenon DEF EndsAll, Phase
  <2>3. CASE EndsOldest(l)
    <3>1. queue'[l] = queue[l] \ {o} /\ (queue'[l] # {} => flight'[l] = "header")
      <4>1. queue'[l] = queue[l] \ {o}
        BY <1>0, <2>3, Zenon DEF EndsOldest
      <4>2. queue[l] \ {o} # {} => flight'[l] = "header"
        BY <1>0, <2>3, Zenon DEF EndsOldest
      <4> QED  BY <4>1, <4>2, Zenon
    <3>2. \A p \in queue'[l] : transferred'[p] = 0
      BY <1>1, <1>3, <3>1, ListedInList, Zenon
    <3> QED  BY <3>1, <3>2, TcpNames DEF Phase
  <2> QED  BY <1>2, <2>1, <2>2, <2>3, Zenon
<1>8. ASSUME NEW p \in TcpOps  PROVE Called(p)'
  <2>1. \A q \in TcpOps : (result'[q] = "idle") <=> (result[q] = "idle")
    <3>1. ASSUME NEW q \in queue[l]  PROVE result[q] # "idle"
      BY <3>1, ListedInList, Zenon DEF ListInv, Called
    <3> QED  BY <1>2, <3>1, Zenon DEF Settles, Completed
  <2>2. Called(p) /\ (p = o => Called(o))
    BY <1>1, Zenon DEF ListInv
  <2>3. p \in queue'[List(p)] => p \in queue[List(p)]
    <3>1. List(p) \in TcpLists
      BY TcpOrder, Zenon
    <3> QED  BY <1>2, <1>4, <3>1, Zenon DEF Settles
  <2>4. CASE p # o
    BY <1>3, <2>1, <2>2, <2>3, <2>4, Zenon DEF Called
  <2>5. CASE p = o
    <3>1. Kind(o) = "write" => s = size[o]
      BY <1>1 DEF Moves, List
    <3> QED  BY <1>1, <1>3, <2>1, <2>2, <2>5, <3>1, Zenon DEF Called
  <2> QED  BY <2>4, <2>5, Zenon
<1> QED  BY <1>2, <1>5, <1>6, <1>7, <1>8, Zenon DEF ListInv

\* What came before the operation that gets bytes: the operations of its list that have begun
\* are whole, and its own bytes are the last of the stream.
LEMMA BegunBefore ==
  ASSUME TcpInv, NEW l \in TcpLists, NEW o, NEW n, NEW s, Moves(l, o, n, s)
  PROVE  /\ \A p \in TcpOps : Begun(p) /\ List(p) = l /\ p # o =>
              Earlier(p, o) /\ WholeFrame(p) /\ Placed(p)
         /\ Begun(o) => Placed(o) /\ EndOf(o) = moved[l]
         /\ result[o] # "success"
<1>1. /\ o \in TcpOps /\ o \in queue[l] /\ List(o) = l
      /\ \A p \in queue[l] : p = o \/ (Earlier(o, p) /\ transferred[p] = 0)
  BY MovesWithinFrame DEF TcpInv
<1>2. \A p \in TcpOps : Begun(p) => Placed(p)
  BY Zenon DEF TcpInv, StreamInv
<1>3. ASSUME NEW p \in TcpOps, Begun(p), List(p) = l, p # o
      PROVE  Earlier(p, o) /\ WholeFrame(p) /\ Placed(p)
  <2>1. Placed(p)
    BY <1>2, <1>3, Zenon
  <2>2. \A q \in queue[l] : q = p \/ Earlier(p, q)
    BY <1>3, <2>1, Zenon DEF Placed
  <2>3. WholeFrame(p) \/ p \in queue[l] \/ queue[l] = {}
    BY <1>3, <2>1, Zenon DEF Placed
  <2>4. p \notin queue[l]
    BY <1>1, <1>3 DEF Begun
  <2> QED  BY <1>1, <1>3, <2>1, <2>2, <2>3, <2>4, Zenon
<1>4. ASSUME Begun(o)  PROVE Placed(o) /\ EndOf(o) = moved[l]
  <2>1. Placed(o)
    BY <1>1, <1>2, <1>4, Zenon
  <2>2. \A p \in TcpOps : ~(Begun(p) /\ Earlier(o, p))
    BY <1>1, <1>3, TcpOrder, Zenon
  <2> QED  BY <1>1, <2>1, <2>2, Zenon DEF Placed
<1>5. result[o] # "success"
  <2>1. Phase(l)
    BY Zenon DEF TcpInv, ListInv
  <2>2. \A p \in queue[l] : p = o \/ Earlier(o, p)
    BY <1>1, Zenon
  <2>3. flight[l] \in {"header", "payload"}
    BY MovesWithinFrame, Zenon DEF TcpInv
  <2>4. transferred[o] \in Nat /\ size[o] \in Nat
    BY <1>1, Zenon DEF TcpInv, ListInv, TypeOK
  <2>5. ~WholeFrame(o)
    BY <1>1, <2>1, <2>2, <2>3, <2>4, TcpNames DEF Phase, WholeFrame
  <2> QED  BY <1>1, <2>5, Zenon DEF TcpInv, StreamInv
<1> QED  BY <1>3, <1>4, <1>5, Zenon

\* The frames of a stream begin at different places.
LEMMA FramesApart ==
  ASSUME TcpInv, NEW v \in TcpOps, NEW w \in TcpOps, Begun(v), Begun(w), List(v) = List(w),
         place[v] = place[w]
  PROVE  v = w
<1>1. /\ place[v] \in Nat /\ place[w] \in Nat
      /\ transferred[v] \in Nat /\ transferred[w] \in Nat
  BY Zenon DEF TcpInv, ListInv, TypeOK
<1>2. ASSUME NEW x \in TcpOps, NEW y \in TcpOps, Begun(x), Begun(y), Earlier(x, y)
      PROVE  EndOf(x) <= place[y]
  BY <1>2, Zenon DEF TcpInv, StreamInv, Placed
<1>3. ~Earlier(v, w) /\ ~Earlier(w, v)
  BY <1>1, <1>2 DEF EndOf, Begun
<1> QED  BY <1>3, TcpOrder, Zenon

\* So the size in a header is that of the write at the place.
LEMMA HeaderOfFrame ==
  ASSUME TcpInv, NEW e, NEW w \in TcpOps, Begun(w), Kind(w) = "write", End(w) = e
  PROVE  SizeInHeader(e, place[w]) =
           IF size[w] <= MaxTransferMessageSize THEN size[w] ELSE 0
<1> DEFINE F == FramesAt(e, place[w])
           Sent == {v \in F : size[v] <= MaxTransferMessageSize}
<1>1. F = {w}
  <2>1. w \in F
    BY Zenon DEF FramesAt, Begun
  <2>2. ASSUME NEW v \in F  PROVE v = w
    BY <2>2, FramesApart, Zenon DEF FramesAt, Begun, List
  <2> QED  BY <2>1, <2>2, Zenon
<1>2. SizeInHeader(e, place[w]) = IF Sent = {} THEN 0 ELSE size[CHOOSE v \in Sent : TRUE]
  BY Zenon DEF SizeInHeader
<1>3. CASE size[w] <= MaxTransferMessageSize
  <2>1. Sent = {w}
    BY <1>1, <1>3, Zenon
  <2> QED  BY <1>2, <1>3, <2>1, Zenon
<1>4. CASE ~(size[w] <= MaxTransferMessageSize)
  <2>1. Sent = {}
    BY <1>1, <1>4, Zenon
  <2> QED  BY <1>2, <1>4, <2>1, Zenon
<1> QED  BY <1>3, <1>4, Zenon

\* A read that gets bytes finds those of one write, which is at its place.
LEMMA ReadFindsFrame ==
  ASSUME TcpInv, NEW l \in TcpLists, NEW o, NEW n, NEW s, Moves(l, o, n, s), l[2] = "read"
  PROVE  \E w \in TcpOps : /\ Kind(w) = "write" /\ End(w) = Peer(l[1])
                           /\ place[w] = PlaceOf(o)
                           /\ transferred[o] + n <= transferred[w]
                           /\ Begun(o) => Sized(o, w)
<1> DEFINE lw == <<Peer(l[1]), "write">>
<1>1. /\ o \in TcpOps /\ o \in queue[l] /\ List(o) = l /\ n \in Nat /\ n > 0
      /\ transferred[o] \in Nat /\ size[o] \in Nat
      /\ flight[l] = "header" => transferred[o] + n <= HeaderSize
      /\ flight[l] = "payload" => /\ transferred[o] + n <= HeaderSize + s
                                  /\ s = size[o] /\ s > 0
                                  /\ transferred[o] >= HeaderSize
      /\ flight[l] \in {"header", "payload"}
  BY MovesWithinFrame, Zenon DEF TcpInv
<1>2. /\ lw \in TcpLists /\ End(o) = l[1] /\ Kind(o) = "read"
      /\ \A w \in TcpOps : List(w) = lw <=> Kind(w) = "write" /\ End(w) = Peer(l[1])
  BY <1>1, TcpOrder, Zenon DEF TcpLists, Peer, Ends, Kinds, List
<1>3. /\ moved \in [TcpLists -> Nat] /\ place \in [TcpOps -> Nat]
      /\ transferred \in [TcpOps -> Nat] /\ size \in [TcpOps -> Nat]
  BY Zenon DEF TcpInv, ListInv, TypeOK, TcpLists
<1>4. moved[l] + n <= moved[lw]
  BY Zenon DEF Moves
<1> HIDE DEF lw
<1>5. \A w \in TcpOps : Begun(w) => Placed(w)
  BY Zenon DEF TcpInv, StreamInv
<1>6. \A r \in TcpOps : Kind(r) = "read" =>
        /\ transferred[r] < HeaderSize => size[r] = 0
        /\ Begun(r) => \E w \in TcpOps : Reads(r, w) /\ Sized(r, w)
  BY Zenon DEF TcpInv, StreamInv
<1>7. CASE Begun(o)
  <2>1. PICK w \in TcpOps : Reads(o, w) /\ Sized(o, w)
    BY <1>1, <1>2, <1>6, <1>7, Zenon
  <2>2. /\ Kind(w) = "write" /\ End(w) = Peer(l[1]) /\ List(w) = lw
        /\ place[w] = place[o] /\ transferred[o] <= transferred[w]
    BY <1>2, <2>1, Zenon DEF Reads
  <2>3. Placed(w)
    BY <1>1, <1>3, <1>5, <1>7, <2>2 DEF Begun
  <2>4. EndOf(o) = moved[l]
    BY <1>7, BegunBefore, Zenon
  <2>5. EndOf(w) = moved[lw] \/ WholeFrame(w)
    BY <2>2, <2>3, Zenon DEF Placed
  <2>6. transferred[o] + n <= transferred[w]
    <3>1. CASE EndOf(w) = moved[lw]
      BY <1>1, <1>2, <1>3, <1>4, <2>2, <2>4, <3>1 DEF EndOf
    <3>2. CASE WholeFrame(w) /\ flight[l] = "header"
      BY <1>1, <1>3, <3>2, TcpNames DEF WholeFrame
    <3>3. CASE WholeFrame(w) /\ flight[l] = "payload"
      <4>1. s = size[w]
        BY <1>1, <1>3, <2>1, <3>3, TcpNames DEF Sized
      <4> QED  BY <1>1, <1>3, <3>3, <4>1, TcpNames, Zenon DEF WholeFrame
    <3> QED  BY <1>1, <2>5, <3>1, <3>2, <3>3, Zenon
  <2>7. PlaceOf(o) = place[o]
    BY <1>1, <1>7 DEF PlaceOf, Begun
  <2> QED  BY <2>1, <2>2, <2>6, <2>7, Zenon
<1>8. CASE ~Begun(o)
  <2>1. transferred[o] = 0 /\ PlaceOf(o) = moved[l] /\ n <= HeaderSize
    BY <1>1, <1>8, TcpNames DEF Begun, PlaceOf
  <2>2. Filled(l) /\ Filled(lw) /\ moved[l] \in Nat /\ moved[lw] \in Nat
    BY <1>2, <1>3, Zenon DEF TcpInv, StreamInv
  <2>3. PICK w \in TcpOps : Begun(w) /\ List(w) = lw /\ place[w] = moved[l]
    <3>1. CASE moved[l] = 0
      BY <1>1, <1>4, <2>2, <3>1 DEF Filled
    <3>2. CASE moved[l] > 0
      <4>1. PICK q \in TcpOps : Begun(q) /\ List(q) = l /\ EndOf(q) = moved[l]
        BY <2>2, <3>2, Zenon DEF Filled
      <4>2. WholeFrame(q) /\ Kind(q) = "read" /\ End(q) = l[1]
        BY <1>8, <4>1, BegunBefore, Zenon DEF List
      <4>3. PICK v \in TcpOps : Reads(q, v) /\ Sized(q, v)
        BY <1>6, <4>1, <4>2, Zenon
      <4>4. /\ List(v) = lw /\ place[v] = place[q]
            /\ transferred[q] <= transferred[v]
        BY <1>2, <4>2, <4>3, Zenon DEF Reads
      <4>5. size[v] = size[q] /\ transferred[q] = HeaderSize + size[q]
        BY <1>3, <4>2, <4>3, TcpNames DEF Sized, WholeFrame
      <4>6. Placed(v)
        BY <1>3, <1>5, <4>1, <4>4 DEF Begun
      <4>7. EndOf(v) = moved[l]
        <5>1. transferred[v] <= HeaderSize + size[v]
          BY <4>6, Zenon DEF Placed
        <5>2. /\ transferred[v] \in Nat /\ transferred[q] \in Nat /\ size[q] \in Nat
              /\ place[q] \in Nat /\ HeaderSize \in Nat
          BY <1>3, TcpNames, Zenon
        <5>3. transferred[v] = transferred[q]
          BY <4>4, <4>5, <5>1, <5>2
        <5> QED  BY <4>1, <4>4, <5>3, Zenon DEF EndOf
      <4>8. EndOf(v) # moved[lw]
        BY <1>1, <1>4, <2>2, <4>7
      <4>9. PICK p \in TcpOps : Begun(p) /\ Earlier(v, p) /\ place[p] = EndOf(v)
        BY <4>4, <4>6, <4>8, Zenon DEF Placed
      <4> QED  BY <4>4, <4>7, <4>9, TcpOrder, Zenon
    <3> QED  BY <2>2, <3>1, <3>2
  <2>4. EndOf(w) = moved[lw] \/ WholeFrame(w)
    BY <1>5, <2>3, Zenon DEF Placed
  <2>5. n <= transferred[w]
    <3>1. CASE EndOf(w) = moved[lw]
      BY <1>1, <1>3, <1>4, <2>2, <2>3, <3>1 DEF EndOf
    <3>2. CASE WholeFrame(w)
      BY <1>1, <1>3, <2>1, <3>2, TcpNames DEF WholeFrame
    <3> QED  BY <2>4, <3>1, <3>2, Zenon
  <2> QED  BY <1>1, <1>2, <1>8, <2>1, <2>3, <2>5
<1> QED  BY <1>7, <1>8, Zenon

\* What stays of an operation that gets no bytes.
Rests(p) ==
  /\ transferred'[p] = transferred[p] /\ size'[p] = size[p] /\ place'[p] = place[p]

\* Getting bytes keeps the operations of all lists in their places.
LEMMA MovesKeepsPlaces ==
  ASSUME TcpInv, NEW l \in TcpLists, NEW o, NEW n, NEW s, Moves(l, o, n, s)
  PROVE  /\ \A p \in TcpOps : Begun(p)' => Placed(p)'
         /\ \A p \in TcpOps : result'[p] = "success" => WholeFrame(p)'
         /\ \A m \in TcpLists : Filled(m)'
<1> DEFINE all == transferred[o] + n
           whole == flight[l] = "payload" /\ all = HeaderSize + s
<1>1. /\ o \in TcpOps /\ o \in queue[l] /\ List(o) = l /\ n \in Nat /\ n > 0
      /\ transferred[o] \in Nat /\ s \in Nat
      /\ flight[l] = "header" => all <= HeaderSize
      /\ flight[l] = "payload" => all <= HeaderSize + s /\ s > 0
      /\ flight[l] \in {"header", "payload"}
      /\ o = Oldest(queue[l])
      /\ \A p \in queue[l] : p = o \/ Earlier(o, p)
  BY MovesWithinFrame, Zenon DEF Moves, TcpInv
<1>2. /\ GoesOn(l, all, s) \/ EndsAll(l) \/ (whole /\ EndsOldest(l))
      /\ Settles(l, whole)
      /\ transferred' = [transferred EXCEPT ![o] = all]
      /\ size' = [size EXCEPT ![o] = s]
      /\ place' = [place EXCEPT ![o] = IF transferred[o] = 0 THEN moved[l] ELSE place[o]]
      /\ moved' = [moved EXCEPT ![l] = moved[l] + n]
  BY MovesEffect DEF TcpInv
<1>3. /\ moved \in [TcpLists -> Nat] /\ place \in [TcpOps -> Nat]
      /\ transferred \in [TcpOps -> Nat] /\ size \in [TcpOps -> Nat]
  BY Zenon DEF TcpInv, ListInv, TypeOK, TcpLists
<1>4. /\ \A p \in TcpOps : p # o => Rests(p)
      /\ transferred'[o] = all /\ size'[o] = s /\ all \in Nat /\ all > 0
      /\ place'[o] = IF Begun(o) THEN place[o] ELSE moved[l]
      /\ \A m \in TcpLists : m # l => moved'[m] = moved[m]
      /\ moved'[l] = moved[l] + n /\ moved[l] \in Nat /\ place[o] \in Nat
  BY <1>1, <1>2, <1>3 DEF Rests, Begun
<1>5. /\ \A p \in TcpOps : Begun(p) /\ List(p) = l /\ p # o =>
           Earlier(p, o) /\ WholeFrame(p) /\ Placed(p)
      /\ Begun(o) => Placed(o) /\ EndOf(o) = moved[l]
      /\ result[o] # "success"
  BY BegunBefore, Zenon
<1> HIDE DEF all, whole
<1>6. /\ queue'[l] \subseteq queue[l]
      /\ \/ o \in queue'[l]
         \/ queue'[l] = {} /\ ~open'[l[1]]
         \/ whole
  <2>1. CASE GoesOn(l, all, s)
    BY <1>1, <2>1, Zenon DEF GoesOn
  <2>2. CASE EndsAll(l)
    BY <2>2, Zenon DEF EndsAll
  <2>3. CASE whole /\ EndsOldest(l)
    BY <2>3, Zenon DEF EndsOldest
  <2> QED  BY <1>2, <2>1, <2>2, <2>3, Zenon
<1>7. whole => WholeFrame(o)'
  BY <1>1, <1>4, Zenon DEF whole, WholeFrame
<1>8. EndOf(o)' = moved'[l]
  BY <1>1, <1>3, <1>4, <1>5 DEF EndOf, Begun, all
<1>9. \A p \in TcpOps : p # o => /\ Begun(p)' <=> Begun(p)
                                 /\ WholeFrame(p)' <=> WholeFrame(p)
                                 /\ EndOf(p)' = EndOf(p)
  BY <1>4, Zenon DEF Rests, Begun, WholeFrame, EndOf
<1>10. Placed(o)'
  <2>1. transferred'[o] <= HeaderSize + size'[o]
    BY <1>1, <1>4, TcpNames
  <2>2. \A p \in TcpOps : Begun(p)' /\ Earlier(o, p) => FALSE
    BY <1>1, <1>5, <1>9, TcpOrder, Zenon
  <2>3. \A p \in queue'[l] : p = o \/ Earlier(o, p)
    BY <1>1, <1>6, Zenon
  <2>4. WholeFrame(o)' \/ o \in queue'[l] \/ (queue'[l] = {} /\ ~open'[End(o)])
    <3>1. End(o) = l[1]
      BY <1>1, Zenon DEF List
    <3> QED  BY <1>6, <1>7, <3>1, Zenon
  <2>5. EndOf(o)' <= moved'[l]
    BY <1>1, <1>4, <1>8
  <2> QED  BY <1>1, <1>8, <2>1, <2>2, <2>3, <2>4, <2>5, Zenon DEF Placed, List, End, Kind, Earlier
<1>11. ASSUME NEW p \in TcpOps, p # o, Begun(p), List(p) = l  PROVE Placed(p)'
  <2>1. Earlier(p, o) /\ WholeFrame(p) /\ Placed(p) /\ WholeFrame(p)'
    BY <1>5, <1>9, <1>11, Zenon
  <2>2. /\ transferred[p] \in Nat /\ place[p] \in Nat /\ EndOf(p) \in Nat
        /\ EndOf(p)' = EndOf(p) /\ transferred'[p] = transferred[p] /\ size'[p] = size[p]
    BY <1>3, <1>4, <1>9, <1>11 DEF EndOf, Rests
  <2>3. /\ transferred[p] <= HeaderSize + size[p]
        /\ EndOf(p) <= moved[l]
        /\ \A q \in TcpOps : Begun(q) /\ Earlier(p, q) => EndOf(p) <= place[q]
        /\ \/ EndOf(p) = moved[l]
           \/ \E q \in TcpOps : Begun(q) /\ Earlier(p, q) /\ place[q] = EndOf(p)
        /\ \A q \in queue[l] : q = p \/ Earlier(p, q)
    BY <1>11, <2>1, Zenon DEF Placed
  <2>4. transferred'[p] <= HeaderSize + size'[p] /\ EndOf(p)' <= moved'[l]
    BY <1>1, <1>4, <2>2, <2>3
  <2>5. EndOf(p) <= place'[o]
    BY <1>1, <1>4, <2>1, <2>3, Zenon
  <2>6. \A q \in TcpOps : Begun(q)' /\ Earlier(p, q) => EndOf(p)' <= place'[q]
    BY <1>4, <1>9, <2>2, <2>3, <2>5, Zenon DEF Rests
  <2>7. \E q \in TcpOps : Begun(q)' /\ Earlier(p, q) /\ place'[q] = EndOf(p)'
    <3>1. Begun(o)'
      BY <1>4, Zenon DEF Begun
    <3>2. CASE EndOf(p) = moved[l]
      <4>1. ~Begun(o)
        <5>1. ASSUME Begun(o)  PROVE FALSE
          <6>1. EndOf(o) = moved[l] /\ EndOf(p) <= place[o] /\ transferred[o] > 0
            BY <1>1, <1>5, <2>1, <2>3, <5>1, Zenon DEF Begun
          <6> QED  BY <1>1, <1>4, <2>2, <3>2, <6>1 DEF EndOf
        <5> QED  BY <5>1, Zenon
      <4> QED  BY <1>1, <1>4, <2>1, <2>2, <3>1, <3>2, <4>1, Zenon
    <3>3. ASSUME NEW q \in TcpOps, Begun(q), Earlier(p, q), place[q] = EndOf(p)
          PROVE  Begun(q)' /\ place'[q] = EndOf(p)'
      <4>1. CASE q = o
        BY <1>4, <2>2, <3>1, <3>3, <4>1, Zenon
      <4>2. CASE q # o
        BY <1>4, <1>9, <2>2, <3>3, <4>2, Zenon DEF Rests
      <4> QED  BY <4>1, <4>2, Zenon
    <3> QED  BY <2>3, <3>2, <3>3, Zenon
  <2>8. \A q \in queue'[l] : q = p \/ Earlier(p, q)
    BY <1>6, <2>3, Zenon
  <2> QED  BY <1>11, <2>1, <2>4, <2>6, <2>7, <2>8, Zenon DEF Placed, List, End, Kind, Earlier
<1>12. ASSUME NEW p \in TcpOps, Begun(p), List(p) # l  PROVE Placed(p)'
  <2>1. PICK m \in TcpLists : m = List(p)
    BY TcpOrder, Zenon
  <2>2. /\ p # o /\ Rests(p) /\ Placed(p) /\ m # l
        /\ EndOf(p)' = EndOf(p) /\ (WholeFrame(p)' <=> WholeFrame(p))
    BY <1>1, <1>4, <1>9, <1>12, <2>1, Zenon DEF TcpInv, StreamInv
  <2>3. /\ queue'[m] = queue[m] /\ moved'[m] = moved[m]
        /\ open'[End(p)] => open[End(p)]
    BY <1>2, <1>4, <2>2, TcpOrder, Zenon DEF Settles
  <2>4. \A q \in TcpOps : Earlier(p, q) => (Begun(q)' <=> Begun(q)) /\ place'[q] = place[q]
    <3> SUFFICES ASSUME NEW q \in TcpOps, Earlier(p, q)
                 PROVE  (Begun(q)' <=> Begun(q)) /\ place'[q] = place[q]
      BY Zenon
    <3>1. q # o
      BY <1>1, <1>12, TcpOrder, Zenon
    <3> QED  BY <1>4, <1>9, <3>1, Zenon DEF Rests
  <2> QED  BY <2>1, <2>2, <2>3, <2>4, Zenon DEF Placed, Rests, List, End, Kind, Earlier
<1>13. ASSUME NEW p \in TcpOps, Begun(p)'  PROVE Placed(p)'
  BY <1>9, <1>10, <1>11, <1>12, <1>13, Zenon
<1>14. ASSUME NEW p \in TcpOps, result'[p] = "success"  PROVE WholeFrame(p)'
  <2>1. CASE p = o
    BY <1>2, <1>5, <1>7, <1>14, <2>1, Zenon DEF Settles
  <2>2. CASE p # o
    <3>1. result[p] = "success"
      BY <1>1, <1>2, <1>14, <2>2, Zenon DEF Settles
    <3> QED  BY <1>9, <2>2, <3>1, Zenon DEF TcpInv, StreamInv
  <2> QED  BY <2>1, <2>2, Zenon
<1>15. ASSUME NEW m \in TcpLists  PROVE Filled(m)'
  <2>1. Filled(m)
    BY Zenon DEF TcpInv, StreamInv
  <2>2. CASE m # l
    <3>1. moved'[m] = moved[m]
      BY <1>4, <2>2, Zenon
    <3>2. \A q \in TcpOps : List(q) = m => /\ Begun(q)' <=> Begun(q)
                                           /\ EndOf(q)' = EndOf(q)
                                           /\ place'[q] = place[q]
      BY <1>1, <1>4, <1>9, <2>2, Zenon DEF Rests
    <3> QED  BY <2>1, <3>1, <3>2, Zenon DEF Filled, List, End, Kind
  <2>3. CASE m = l
    <3>1. Begun(o)' /\ EndOf(o)' = moved'[l]
      BY <1>4, <1>8, Zenon DEF Begun
    <3>2. CASE moved[l] = 0
      <4>1. ~Begun(o)
        <5>1. ASSUME Begun(o)  PROVE FALSE
          <6>1. place[o] + transferred[o] = 0 /\ transferred[o] > 0
            BY <1>5, <3>2, <5>1, Zenon DEF Begun, EndOf
          <6> QED  BY <1>1, <1>4, <6>1
        <5> QED  BY <5>1, Zenon
      <4>2. place'[o] = 0
        BY <1>4, <3>2, <4>1, Zenon
      <4> QED  BY <1>1, <2>3, <3>1, <4>2, Zenon DEF Filled, List, End, Kind
    <3>3. CASE moved[l] > 0
      <4>1. PICK q \in TcpOps : Begun(q) /\ List(q) = l /\ place[q] = 0
        BY <2>1, <2>3, <3>3, Zenon DEF Filled
      <4>2. Begun(q)' /\ place'[q] = 0
        BY <1>4, <1>9, <3>1, <4>1, Zenon DEF Rests
      <4>3. \E p \in TcpOps : Begun(p)' /\ List(p) = l /\ place'[p] = 0
        BY <4>1, <4>2, Zenon
      <4>4. \E p \in TcpOps : Begun(p)' /\ List(p) = l /\ EndOf(p)' = moved'[l]
        BY <1>1, <3>1, Zenon
      <4> QED  BY <2>3, <4>3, <4>4, Zenon DEF Filled, List, End, Kind
    <3> QED  BY <1>4, <3>2, <3>3
  <2> QED  BY <2>2, <2>3, Zenon
<1> QED  BY <1>13, <1>14, <1>15, Zenon

\* Getting bytes keeps every read at one frame.
LEMMA MovesKeepsReads ==
  ASSUME TcpInv, NEW l \in TcpLists, NEW o, NEW n, NEW s, Moves(l, o, n, s), NEW r \in TcpOps, Kind(r) = "read"
  PROVE  /\ transferred'[r] < HeaderSize => size'[r] = 0
         /\ Begun(r)' => \E w \in TcpOps : Reads(r, w)' /\ Sized(r, w)'
<1> DEFINE all == transferred[o] + n
<1>1. /\ o \in TcpOps /\ List(o) = l /\ n \in Nat /\ n > 0
      /\ transferred[o] \in Nat /\ size[o] \in Nat /\ s \in Nat
      /\ flight[l] = "header" => all <= HeaderSize
      /\ flight[l] = "payload" => s = size[o] /\ transferred[o] >= HeaderSize
      /\ flight[l] \in {"header", "payload"}
      /\ all \in Nat
  <2>1. ListInv /\ s \in Nat
    BY Zenon DEF Moves, TcpInv
  <2> QED  BY <2>1, MovesWithinFrame
<1>2. /\ transferred' = [transferred EXCEPT ![o] = all]
      /\ size' = [size EXCEPT ![o] = s]
      /\ place' = [place EXCEPT ![o] = PlaceOf(o)]
  BY <1>1, MovesEffect DEF TcpInv, PlaceOf
<1>3. /\ moved \in [TcpLists -> Nat] /\ place \in [TcpOps -> Nat]
      /\ transferred \in [TcpOps -> Nat] /\ size \in [TcpOps -> Nat]
  BY Zenon DEF TcpInv, ListInv, TypeOK, TcpLists
<1>4. /\ \A p \in TcpOps : p # o => Rests(p)
      /\ transferred'[o] = all /\ size'[o] = s
      /\ place'[o] = PlaceOf(o) /\ (Begun(o) => PlaceOf(o) = place[o])
  BY <1>1, <1>2, <1>3 DEF Rests, Begun, PlaceOf
<1>5. /\ transferred[r] < HeaderSize => size[r] = 0
      /\ Begun(r) => \E w \in TcpOps : Reads(r, w) /\ Sized(r, w)
  BY Zenon DEF TcpInv, StreamInv
<1>6. /\ all # HeaderSize => s = size[o]
      /\ l[2] = "write" => s = size[o]
  BY Zenon DEF Moves
<1>7. l[2] = "read" /\ all = HeaderSize => s = SizeInHeader(Peer(l[1]), PlaceOf(o))
  BY Zenon DEF Moves
<1>8. Kind(o) = l[2] /\ End(o) = l[1]
  BY <1>1, Zenon DEF List
<1> HIDE DEF all
<1>9. CASE r # o
  <2>1. Rests(r) /\ (Begun(r)' => Begun(r))
    BY <1>4, <1>9, Zenon DEF Rests, Begun
  <2>2. ASSUME NEW w \in TcpOps, Reads(r, w), Sized(r, w), Begun(r)
        PROVE  Reads(r, w)' /\ Sized(r, w)'
    <3>1. /\ Kind(w) = "write" /\ End(w) = Peer(End(r))
          /\ place[w] = place[r] /\ transferred[r] <= transferred[w]
      BY <2>2, Zenon DEF Reads
    <3>2. /\ transferred[w] \in Nat /\ transferred[r] \in Nat /\ transferred[r] > 0
      BY <1>3, <2>2, Zenon DEF Begun
    <3>3. Begun(w)
      BY <3>1, <3>2 DEF Begun
    <3>4. /\ place'[w] = place[w] /\ size'[w] = size[w]
          /\ transferred[r] <= transferred'[w]
      <4>1. CASE w = o
        <5>1. s = size[o]
          BY <1>6, <1>8, <3>1, <4>1, Zenon
        <5>2. all >= transferred[o]
          BY <1>1 DEF all
        <5> QED  BY <1>1, <1>4, <3>1, <3>2, <3>3, <4>1, <5>1, <5>2
      <4>2. CASE w # o
        BY <1>4, <3>1, <4>2, Zenon DEF Rests
      <4> QED  BY <4>1, <4>2, Zenon
    <3>5. Reads(r, w)'
      BY <2>1, <3>1, <3>4, Zenon DEF Reads, Rests, Kind, End, Peer
    <3> QED  BY <2>1, <2>2, <3>4, <3>5, Zenon DEF Sized, Rests
  <2> QED  BY <1>5, <2>1, <2>2, Zenon DEF Rests
<1>10. CASE r = o
  <2>1. l[2] = "read"
    BY <1>8, <1>10, Zenon
  <2>2. PICK w \in TcpOps : /\ Kind(w) = "write" /\ End(w) = Peer(l[1])
                            /\ place[w] = PlaceOf(o)
                            /\ all <= transferred[w]
                            /\ Begun(o) => Sized(o, w)
    BY <2>1, ReadFindsFrame, Zenon DEF all
  <2>3. all > 0
    BY <1>1 DEF all
  <2>4. Begun(w) /\ w # o /\ Rests(w)
    BY <1>1, <1>3, <1>4, <1>8, <2>1, <2>2, <2>3 DEF Begun
  <2>5. Reads(o, w)'
    BY <1>4, <1>8, <2>2, <2>4, Zenon DEF Reads, Rests, Kind, End, Peer
  <2>6. transferred[o] < all
    BY <1>1 DEF all
  <2>7. all < HeaderSize => s = 0
    BY <1>1, <1>5, <1>6, <1>10, <2>6, TcpNames
  <2>8. s = IF all >= HeaderSize /\ size[w] <= MaxTransferMessageSize THEN size[w] ELSE 0
    <3>1. CASE all < HeaderSize
      BY <1>1, <2>7, <3>1, TcpNames
    <3>2. CASE all = HeaderSize
      <4>1. s = SizeInHeader(Peer(l[1]), place[w])
        BY <1>7, <2>1, <2>2, <3>2, Zenon
      <4>2. s = IF size[w] <= MaxTransferMessageSize THEN size[w] ELSE 0
        BY <2>2, <2>4, <4>1, HeaderOfFrame, Zenon
      <4> QED  BY <1>1, <3>2, <4>2, TcpNames
    <3>3. CASE all > HeaderSize
      <4>1. s = size[o] /\ transferred[o] >= HeaderSize
        BY <1>1, <3>3, TcpNames
      <4>2. Sized(o, w)
        BY <1>1, <2>2, <4>1, TcpNames DEF Begun
      <4> QED  BY <1>1, <3>3, <4>1, <4>2, TcpNames DEF Sized
    <3> QED  BY <1>1, <3>1, <3>2, <3>3, TcpNames
  <2>9. Sized(o, w)'
    BY <1>4, <2>4, <2>8, Zenon DEF Sized, Rests
  <2> QED  BY <1>4, <1>10, <2>5, <2>7, <2>9, Zenon
<1> QED  BY <1>9, <1>10, Zenon

\* Getting bytes keeps the invariant.
LEMMA MovesKeeps ==
  ASSUME TcpInv, NEW l \in TcpLists, NEW o, NEW n, NEW s, Moves(l, o, n, s)
  PROVE  TcpInv'
<1>1. ListInv'
  BY MovesKeepsLists, Zenon DEF TcpInv
<1>2. /\ \A p \in TcpOps : Begun(p)' => Placed(p)'
      /\ \A p \in TcpOps : result'[p] = "success" => WholeFrame(p)'
      /\ \A m \in TcpLists : Filled(m)'
  BY MovesKeepsPlaces, Zenon
<1>3. \A r \in TcpOps : Kind(r) = "read" =>
         /\ transferred'[r] < HeaderSize => size'[r] = 0
         /\ Begun(r)' => \E w \in TcpOps : Reads(r, w)' /\ Sized(r, w)'
  BY MovesKeepsReads, Zenon
<1> QED  BY <1>1, <1>2, <1>3, Zenon DEF TcpInv, StreamInv, Kind

\* The handlers of the sockets are such steps.
LEMMA TcpBytesMove ==
  ASSUME ListInv, NEW e \in Ends, BytesWritten(e) \/ BytesRead(e)
  PROVE  \E l \in TcpLists : \E o, n, s : Moves(l, o, n, s)
<1>1. <<e, "write">> \in TcpLists /\ <<e, "read">> \in TcpLists
  BY Zenon DEF TcpLists, Kinds
<1>2. \A o \in TcpOps : size[o] \in Nat
  BY Zenon DEF ListInv, TypeOK
<1>3. CASE BytesWritten(e)
  <2> DEFINE l == <<e, "write">>
             w == Oldest(queue[l])
  <2>1. PICK n \in 1..Remaining(w) :
          Transfer(w, n) /\ Continue(e, "write", transferred[w] + n, size[w])
    BY <1>3, Zenon DEF BytesWritten
  <2>2. flight[l] # "none" /\ UNCHANGED <<size, timed>>
    BY <1>3, Zenon DEF BytesWritten
  <2>3. w \in TcpOps
    BY <1>1, <2>2, ListedInList, TcpOldest, Zenon DEF ListInv
  <2>4. size' = [size EXCEPT ![w] = size[w]]
    BY <2>2, <2>3, Zenon DEF ListInv, TypeOK
  <2>5. Moves(l, w, n, size[w])
    BY <1>2, <2>1, <2>2, <2>3, <2>4, Zenon DEF Moves
  <2> QED  BY <1>1, <2>5, Zenon
<1>4. CASE BytesRead(e)
  <2> DEFINE l == <<e, "read">>
             r == Oldest(queue[l])
             S(n) == IF transferred[r] + n = HeaderSize
                     THEN SizeInHeader(Peer(e), PlaceOf(r)) ELSE size[r]
  <2>1. PICK n \in 1..Remaining(r) :
          /\ moved[l] + n <= moved[<<Peer(e), "write">>]
          /\ Transfer(r, n)
          /\ size' = [size EXCEPT ![r] = S(n)]
          /\ Continue(e, "read", transferred[r] + n, S(n))
    BY <1>4, Zenon DEF BytesRead
  <2>2. flight[l] # "none" /\ UNCHANGED timed
    BY <1>4, Zenon DEF BytesRead
  <2>3. r \in TcpOps
    BY <1>1, <2>2, ListedInList, TcpOldest, Zenon DEF ListInv
  <2>4. S(n) \in Nat
    <3>1. SizeInHeader(Peer(e), PlaceOf(r)) \in Nat
      <4> DEFINE Sent == {w \in FramesAt(Peer(e), PlaceOf(r)) : size[w] <= MaxTransferMessageSize}
      <4>1. Sent \subseteq TcpOps
        BY Zenon DEF FramesAt
      <4>2. CASE Sent = {}
        BY <4>2, Zenon DEF SizeInHeader
      <4>3. CASE Sent # {}
        <5>1. (CHOOSE w \in Sent : TRUE) \in Sent
          BY <4>3, Zenon
        <5> QED  BY <1>2, <4>1, <4>3, <5>1, Zenon DEF SizeInHeader
      <4> QED  BY <4>2, <4>3, Zenon
    <3> QED  BY <1>2, <2>3, <3>1, Zenon
  <2>5. Moves(l, r, n, S(n))
    BY <2>1, <2>2, <2>3, <2>4, Zenon DEF Moves
  <2> QED  BY <1>1, <2>5, Zenon
<1> QED  BY <1>3, <1>4, Zenon

\* A step in which no byte moves keeps the streams, if it leaves operations that have begun in
\* their lists, or ends them with all others because the socket is closed.
LEMMA StreamStays ==
  ASSUME TcpInv, UNCHANGED <<transferred, place, moved>>,
         \A p \in TcpOps : Begun(p) =>
           /\ size'[p] = size[p]
           /\ \A q \in queue'[List(p)] : q = p \/ Earlier(p, q)
           /\ \/ WholeFrame(p) \/ p \in queue'[List(p)]
              \/ queue'[List(p)] = {} /\ ~open'[End(p)],
         \A p \in TcpOps : /\ result'[p] = "success" => result[p] = "success"
                           /\ ~Begun(p) /\ Kind(p) = "read" => size'[p] = 0
  PROVE  StreamInv'
<1>1. /\ transferred \in [TcpOps -> Nat] /\ size \in [TcpOps -> Nat]
  BY Zenon DEF TcpInv, ListInv, TypeOK
<1>2. \A p \in TcpOps : /\ Begun(p)' <=> Begun(p)
                        /\ EndOf(p)' = EndOf(p) /\ place'[p] = place[p]
                        /\ transferred'[p] = transferred[p]
  BY Zenon DEF Begun, EndOf
<1>3. \A p \in TcpOps : WholeFrame(p) => Begun(p)
  BY <1>1, TcpNames DEF WholeFrame, Begun
<1>4. \A p \in TcpOps : Begun(p) => (WholeFrame(p)' <=> WholeFrame(p)) /\ size'[p] = size[p]
  BY Zenon DEF WholeFrame
<1>5. ASSUME NEW p \in TcpOps, Begun(p)'  PROVE Placed(p)'
  <2>1. Begun(p) /\ Placed(p)
    BY <1>2, <1>5, Zenon DEF TcpInv, StreamInv
  <2>2. PICK m : m = List(p)
    BY Zenon
  <2>3. moved'[m] = moved[m]
    BY Zenon
  <2>4. /\ \A q \in queue'[m] : q = p \/ Earlier(p, q)
        /\ WholeFrame(p)' \/ p \in queue'[m] \/ (queue'[m] = {} /\ ~open'[End(p)])
    BY <1>4, <2>1, <2>2, Zenon
  <2> QED  BY <1>2, <1>4, <2>1, <2>2, <2>3, <2>4, Zenon DEF Placed, List, End, Kind, Earlier
<1>6. \A p \in TcpOps : result'[p] = "success" => WholeFrame(p)'
  BY <1>3, <1>4, Zenon DEF TcpInv, StreamInv
<1>7. ASSUME NEW l \in TcpLists  PROVE Filled(l)'
  <2>1. Filled(l)
    BY Zenon DEF TcpInv, StreamInv
  <2> QED  BY <1>2, <2>1 DEF Filled, List, End, Kind
<1>8. ASSUME NEW r \in TcpOps, Kind(r) = "read"
      PROVE  /\ transferred'[r] < HeaderSize => size'[r] = 0
             /\ Begun(r)' => \E w \in TcpOps : Reads(r, w)' /\ Sized(r, w)'
  <2>1. /\ transferred[r] < HeaderSize => size[r] = 0
        /\ Begun(r) => \E w \in TcpOps : Reads(r, w) /\ Sized(r, w)
    BY <1>8, Zenon DEF TcpInv, StreamInv
  <2>2. ASSUME NEW w \in TcpOps, Begun(r), Reads(r, w), Sized(r, w)
        PROVE  Reads(r, w)' /\ Sized(r, w)'
    <3>1. Begun(w)
      BY <1>1, <2>2 DEF Reads, Begun
    <3>2. size'[w] = size[w] /\ size'[r] = size[r]
      BY <1>4, <2>2, <3>1, Zenon
    <3>3. Reads(r, w)'
      BY <1>2, <2>2, Zenon DEF Reads, Kind, End, Peer
    <3> QED  BY <1>2, <2>2, <3>2, <3>3, Zenon DEF Sized
  <2>3. transferred'[r] < HeaderSize => size'[r] = 0
    BY <1>2, <1>4, <1>8, <2>1, Zenon
  <2> QED  BY <1>2, <2>1, <2>2, <2>3, Zenon
<1> QED  BY <1>5, <1>6, <1>7, <1>8, Zenon DEF StreamInv, Kind

\* A listed operation is the only one of its list that has begun, or it has not begun.
LEMMA BegunIsOldest ==
  ASSUME TcpInv, NEW p \in TcpOps, Begun(p)
  PROVE  /\ \A q \in queue[List(p)] : q = p \/ Earlier(p, q)
         /\ WholeFrame(p) \/ p \in queue[List(p)] \/ (queue[List(p)] = {} /\ ~open[End(p)])
         /\ result[p] # "idle"
         /\ p \in queue[List(p)] => p = Oldest(queue[List(p)])
<1>1. Placed(p) /\ Called(p)
  BY Zenon DEF TcpInv, StreamInv, ListInv
<1>2. /\ \A q \in queue[List(p)] : q = p \/ Earlier(p, q)
      /\ WholeFrame(p) \/ p \in queue[List(p)] \/ (queue[List(p)] = {} /\ ~open[End(p)])
      /\ result[p] # "idle"
  BY <1>1, Zenon DEF Placed, Called, Begun
<1>3. PICK l \in TcpLists : l = List(p)
  BY TcpOrder, Zenon
<1>4. \A q \in queue[l] : q \in TcpOps /\ List(q) = l
  BY ListedInList, Zenon DEF TcpInv
<1>5. ASSUME p \in queue[l]  PROVE p = Oldest(queue[l])
  BY <1>2, <1>3, <1>4, <1>5, TcpOldest, Zenon
<1> QED  BY <1>2, <1>3, <1>5, Zenon

\* A failing socket operation keeps the invariant.
LEMMA TcpFailKeeps ==
  ASSUME TcpInv, NEW e \in Ends, NEW kind \in Kinds, OperationFails(e, kind)
  PROVE  TcpInv'
<1> DEFINE l == <<e, kind>>
<1>1. l \in TcpLists /\ ListInv /\ TypeOK
  BY Zenon DEF TcpLists, TcpInv, ListInv
<1>2. UNCHANGED <<size, transferred, place, timed, moved>>
  BY Zenon DEF OperationFails
<1>3. EndsAll(l) /\ Settles(l, FALSE) /\ HandlerTypes
  <2>1. CASE open[e]
    <3>1. InvalidateUnsafe(e, FALSE) /\ CompleteAll(e, kind, "failed")
      BY <2>1, Zenon DEF OperationFails
    <3>2. FALSE \in BOOLEAN
      BY Zenon
    <3>3. /\ open' \in [Ends -> BOOLEAN]
          /\ byFail' \in [Ends -> BOOLEAN]
          /\ callback' \in [Ends -> {"none", "stored", "posted"}]
          /\ ~open'[e]
          /\ \A d \in Ends : open'[d] => open[d]
      BY <1>1, <3>1, <3>2, TcpCloses, Zenon
    <3> QED  BY <1>1, <3>1, <3>3, TcpEndsAll, Zenon
  <2>2. CASE ~open[e]
    <3>1. /\ CompleteAll(e, kind, CloseResult(e)) /\ UNCHANGED <<open, byFail, callback>>
      BY <2>2, Zenon DEF OperationFails
    <3>2. CloseResult(e) \in {"failed", "canceled"}
      BY Zenon DEF CloseResult
    <3> QED  BY <1>1, <2>2, <3>1, <3>2, TcpEndsAll, Zenon DEF TypeOK
  <2> QED  BY <2>1, <2>2, Zenon
<1>4. queue'[l] = {} /\ flight'[l] = "none" /\ ~open'[e]
  BY <1>3, Zenon DEF EndsAll
<1>5. TypeOK'
  BY <1>1, <1>2, <1>3, Zenon DEF HandlerTypes, TypeOK, TcpLists
<1>6. ListsAreDriven'
  BY <1>1, <1>3, <1>4, <1>5, ShrinkingStaysDriven, Zenon
<1> HIDE DEF l
<1>7. ASSUME NEW m \in TcpLists  PROVE Phase(m)'
  <2>1. CASE m = l
    BY <1>4, <2>1, Zenon DEF Phase
  <2>2. CASE m # l
    <3>1. queue'[m] = queue[m] /\ flight'[m] = flight[m] /\ Phase(m)
      BY <1>1, <1>3, <2>2, Zenon DEF Settles, ListInv
    <3> QED  BY <1>2, <3>1, Zenon DEF Phase
  <2> QED  BY <2>1, <2>2, Zenon
<1>8. ASSUME NEW p \in TcpOps  PROVE Called(p)'
  <2>1. \A q \in TcpOps : (result'[q] = "idle") <=> (result[q] = "idle")
    <3>1. ASSUME NEW q \in queue[l]  PROVE result[q] # "idle"
      BY <1>1, <3>1, ListedInList, Zenon DEF ListInv, Called
    <3> QED  BY <1>3, <3>1, Zenon DEF Settles, Completed
  <2>2. p \in queue'[List(p)] => p \in queue[List(p)]
    <3>1. List(p) \in TcpLists
      BY TcpOrder, Zenon
    <3> QED  BY <1>3, <1>4, <3>1, Zenon DEF Settles
  <2>3. Called(p)
    BY <1>1, Zenon DEF ListInv
  <2> QED  BY <1>2, <2>1, <2>2, <2>3, Zenon DEF Called
<1>9. ListInv'
  BY <1>5, <1>6, <1>7, <1>8, Zenon DEF ListInv
<1>10. ASSUME NEW p \in TcpOps, Begun(p)
       PROVE  /\ \A q \in queue'[List(p)] : q = p \/ Earlier(p, q)
              /\ \/ WholeFrame(p) \/ p \in queue'[List(p)]
                 \/ queue'[List(p)] = {} /\ ~open'[End(p)]
  <2>1. CASE List(p) = l
    <3>1. End(p) = e
      BY <2>1, Zenon DEF List, l
    <3> QED  BY <1>4, <2>1, <3>1, Zenon
  <2>2. CASE List(p) # l
    <3>1. queue'[List(p)] = queue[List(p)] /\ (open'[End(p)] => open[End(p)])
      BY <1>3, <2>2, TcpOrder, Zenon DEF Settles
    <3> QED  BY <1>10, <3>1, BegunIsOldest, Zenon
  <2> QED  BY <2>1, <2>2, Zenon
<1>11. ASSUME NEW p \in TcpOps
       PROVE  /\ result'[p] = "success" => result[p] = "success"
              /\ ~Begun(p) /\ Kind(p) = "read" => size'[p] = 0
  <2>1. ~Begun(p) => transferred[p] < HeaderSize
    BY <1>1, TcpNames DEF Begun, TypeOK
  <2> QED  BY <1>2, <1>3, <2>1, Zenon DEF Settles, TcpInv, StreamInv
<1>12. StreamInv'
  BY <1>2, <1>10, <1>11, StreamStays, Zenon
<1> QED  BY <1>9, <1>12, Zenon DEF TcpInv

\* A test of membership is a Boolean.
LEMMA MembershipIsBoolean ==
  ASSUME NEW x, NEW S
  PROVE  (x \in S) \in BOOLEAN
OBVIOUS

\* A step that touches no list and opens no socket keeps the invariant.
LEMMA TcpUntouched ==
  ASSUME TcpInv,
         UNCHANGED <<queue, flight, size, transferred, place, result, timed, moved>>,
         open' \in [Ends -> BOOLEAN],
         byFail' \in [Ends -> BOOLEAN],
         callback' \in [Ends -> {"none", "stored", "posted"}],
         \A d \in Ends : open'[d] => open[d]
  PROVE  TcpInv'
<1>1. TypeOK
  BY Zenon DEF TcpInv, ListInv
<1>2. TypeOK'
  <2>1. /\ queue' \in [TcpLists -> SUBSET TcpOps]
        /\ flight' \in [TcpLists -> {"none", "header", "payload"}]
        /\ size' \in [TcpOps -> Nat] /\ transferred' \in [TcpOps -> Nat] /\ place' \in [TcpOps -> Nat]
        /\ result' \in [TcpOps -> {"idle", "pending"} \cup Completed]
        /\ moved' \in [TcpLists -> Nat]
    BY <1>1, Zenon DEF TypeOK, TcpLists
  <2>2. timed' \in [TcpOps -> BOOLEAN]
    BY <1>1, Zenon DEF TypeOK
  <2> QED  BY <2>1, <2>2, Zenon DEF TypeOK, TcpLists, Completed
<1>3. ListsAreDriven'
  <2>1. ListsAreDriven /\ UNCHANGED <<queue, flight, result>>
    BY Zenon DEF TcpInv, ListInv
  <2>2. ASSUME NEW e \in Ends, NEW kind \in Kinds
        PROVE  /\ flight'[<<e, kind>>] = "none" <=> queue'[<<e, kind>>] = {}
               /\ \A p \in TcpOps :
                    /\ p \in queue'[<<e, kind>>] => End(p) = e /\ Kind(p) = kind
                    /\ result'[p] = "pending" => p \in queue'[List(p)]
    BY <2>1 DEF ListsAreDriven
  <2> QED  BY <2>2, Zenon DEF ListsAreDriven, List, End, Kind
<1>4. ASSUME NEW l \in TcpLists  PROVE Phase(l)'
  BY Zenon DEF TcpInv, ListInv, Phase
<1>5. ASSUME NEW p \in TcpOps  PROVE Called(p)'
  <2>1. Called(p)
    BY Zenon DEF TcpInv, ListInv
  <2> QED  BY <2>1, Zenon DEF Called, List, End, Kind
<1>6. ASSUME NEW p \in TcpOps, Begun(p)
      PROVE  /\ \A q \in queue'[List(p)] : q = p \/ Earlier(p, q)
             /\ \/ WholeFrame(p) \/ p \in queue'[List(p)]
                \/ queue'[List(p)] = {} /\ ~open'[End(p)]
  BY <1>6, BegunIsOldest, TcpOrder, Zenon
<1>7. ASSUME NEW p \in TcpOps, ~Begun(p), Kind(p) = "read"  PROVE size'[p] = 0
  <2>1. transferred[p] < HeaderSize
    BY <1>1, <1>7, TcpNames DEF Begun, TypeOK
  <2> QED  BY <1>7, <2>1, Zenon DEF TcpInv, StreamInv
<1>8. StreamInv'
  BY <1>6, <1>7, StreamStays, Zenon
<1> QED  BY <1>2, <1>3, <1>4, <1>5, <1>8, Zenon DEF TcpInv, ListInv

\* Closing a socket, or giving a disconnect callback, is such a step.
LEMMA TcpCloseKeeps ==
  ASSUME TcpInv, NEW e \in Ends, Invalidate(e) \/ SetDisconnectCallback(e)
  PROVE  TcpInv'
<1>1. TypeOK
  BY Zenon DEF TcpInv, ListInv
<1>2. CASE Invalidate(e)
  <2>1. InvalidateUnsafe(e, TRUE) /\ TRUE \in BOOLEAN
    BY <1>2, Zenon DEF Invalidate
  <2>2. UNCHANGED <<queue, flight, size, transferred, place, result, timed, moved>>
    BY <1>2, Zenon DEF Invalidate
  <2> QED  BY <1>1, <2>1, <2>2, TcpCloses, TcpUntouched, Zenon
<1>3. CASE SetDisconnectCallback(e)
  <2>1. UNCHANGED <<open, byFail, queue, flight, size, transferred, place, result,
                    timed, moved>>
    BY <1>3, Zenon DEF SetDisconnectCallback
  <2>2. callback' \in [Ends -> {"none", "stored", "posted"}]
    BY <1>1, <1>3, Zenon DEF SetDisconnectCallback, TypeOK
  <2>3. open' \in [Ends -> BOOLEAN] /\ byFail' \in [Ends -> BOOLEAN]
    BY <1>1, <2>1, Zenon DEF TypeOK
  <2> QED  BY <2>1, <2>2, <2>3, TcpUntouched, Zenon
<1> QED  BY <1>2, <1>3, Zenon

\* An operation that is called was not begun, and is the latest of its list.
LEMMA CalledLast ==
  ASSUME TcpInv, NEW o \in TcpOps, result[o] = "idle"
  PROVE  /\ ~Begun(o) /\ transferred[o] = 0 /\ o \notin queue[List(o)]
         /\ \A p \in TcpOps : result[p] # "idle" /\ List(p) = List(o) => Earlier(p, o)
         /\ \A p \in queue[List(o)] : p \in TcpOps /\ Earlier(p, o) /\ p # o
<1>1. Called(o) /\ transferred[o] \in Nat
  BY Zenon DEF TcpInv, ListInv, TypeOK
<1>2. ~Begun(o) /\ transferred[o] = 0 /\ o \notin queue[List(o)]
  BY <1>1 DEF Called, Begun
<1>3. ASSUME NEW p \in TcpOps, result[p] # "idle", List(p) = List(o)  PROVE Earlier(p, o)
  <2>1. ~Earlier(o, p)
    BY <1>3, Zenon DEF TcpInv, ListInv, Called
  <2> QED  BY <1>3, <2>1, TcpOrder, Zenon
<1>4. PICK l \in TcpLists : l = List(o)
  BY TcpOrder, Zenon
<1>5. \A p \in queue[l] : p \in TcpOps /\ List(p) = l
  BY ListedInList, Zenon DEF TcpInv
<1>6. ASSUME NEW p \in queue[l]  PROVE result[p] # "idle"
  BY <1>5, <1>6, Zenon DEF TcpInv, ListInv, Called
<1> QED  BY <1>2, <1>3, <1>4, <1>5, <1>6, Zenon

\* Calling write_async or read_async keeps the invariant.
LEMMA TcpStartKeeps ==
  ASSUME TcpInv, NEW o \in TcpOps, NEW s \in Nat, StartOperation(o, s),
         IF Kind(o) = "write" THEN s > 0 ELSE s = 0
  PROVE  TcpInv'
<1>1. PICK l \in TcpLists : l = List(o)
  BY TcpOrder, Zenon
<1>2. /\ result[o] = "idle" /\ \A p \in TcpOps : Earlier(p, o) => result[p] # "idle"
      /\ UNCHANGED <<open, byFail, callback, transferred, place, moved>>
  BY Zenon DEF StartOperation
<1>3. /\ ~Begun(o) /\ transferred[o] = 0 /\ o \notin queue[l]
      /\ \A p \in TcpOps : result[p] # "idle" /\ List(p) = l => Earlier(p, o)
      /\ \A p \in queue[l] : p \in TcpOps /\ Earlier(p, o) /\ p # o
  BY <1>1, <1>2, CalledLast, Zenon
<1>4. TypeOK /\ ListInv
  BY Zenon DEF TcpInv, ListInv
<1>5. \/ /\ open[End(o)]
         /\ result' = [result EXCEPT ![o] = "pending"]
         /\ timed' = [timed EXCEPT ![o] = o \in TcpTimedOps]
         /\ size' = [size EXCEPT ![o] = s]
         /\ queue' = [queue EXCEPT ![l] = queue[l] \cup {o}]
         /\ flight' = [flight EXCEPT ![l] = IF queue[l] = {} THEN "header" ELSE flight[l]]
      \/ /\ result' = [result EXCEPT ![o] = "failed"]
         /\ UNCHANGED <<timed, size, queue, flight>>
  BY <1>1, <1>4, Zenon DEF StartOperation, TypeOK, TcpLists
<1>6. TypeOK'
  <2>1. timed' \in [TcpOps -> BOOLEAN]
    <3>1. timed \in [TcpOps -> BOOLEAN]
      BY <1>4, Zenon DEF TypeOK
    <3>2. timed' = timed \/ timed' = [timed EXCEPT ![o] = o \in TcpTimedOps]
      BY <1>5, Zenon
    <3>3. timed' = timed \/ \E b \in BOOLEAN : timed' = [timed EXCEPT ![o] = b]
      BY <3>2, MembershipIsBoolean, Zenon
    <3> QED  BY <3>1, <3>3, Zenon
  <2>2. open' \in [Ends -> BOOLEAN] /\ byFail' \in [Ends -> BOOLEAN]
    BY <1>2, <1>4, Zenon DEF TypeOK
  <2>3. /\ callback' \in [Ends -> {"none", "stored", "posted"}]
        /\ transferred' \in [TcpOps -> Nat] /\ place' \in [TcpOps -> Nat]
        /\ moved' \in [TcpLists -> Nat]
    BY <1>2, <1>4, Zenon DEF TypeOK, TcpLists
  <2>4. /\ size' \in [TcpOps -> Nat]
        /\ result' \in [TcpOps -> {"idle", "pending"} \cup Completed]
    <3>1. /\ size \in [TcpOps -> Nat]
          /\ result \in [TcpOps -> {"idle", "pending"} \cup Completed]
          /\ {"pending", "failed"} \subseteq {"idle", "pending"} \cup Completed
      BY <1>4, Zenon DEF TypeOK, Completed
    <3>2. /\ size' = [size EXCEPT ![o] = s] \/ size' = size
          /\ \E r \in {"pending", "failed"} : result' = [result EXCEPT ![o] = r]
      BY <1>5, Zenon
    <3> QED  BY <3>1, <3>2, Zenon
  <2>5. /\ queue' \in [TcpLists -> SUBSET TcpOps]
        /\ flight' \in [TcpLists -> {"none", "header", "payload"}]
    <3>1. /\ queue \in [TcpLists -> SUBSET TcpOps]
          /\ flight \in [TcpLists -> {"none", "header", "payload"}]
      BY <1>4, Zenon DEF TypeOK, TcpLists
    <3>2. /\ queue' = [queue EXCEPT ![l] = queue[l] \cup {o}] \/ queue' = queue
          /\ \/ flight' = [flight EXCEPT ![l] = IF queue[l] = {} THEN "header" ELSE flight[l]]
             \/ flight' = flight
      BY <1>5, Zenon
    <3> QED  BY <3>1, <3>2, Zenon
  <2> QED  BY <2>1, <2>2, <2>3, <2>4, <2>5, Zenon DEF TypeOK, TcpLists
<1>7. /\ \A p \in TcpOps : p # o => result'[p] = result[p] /\ size'[p] = size[p]
      /\ result'[o] \in {"pending", "failed"}
      /\ \A m \in TcpLists : m # l => queue'[m] = queue[m] /\ flight'[m] = flight[m]
      /\ \/ /\ queue'[l] = queue[l] \cup {o}
            /\ flight'[l] = IF queue[l] = {} THEN "header" ELSE flight[l]
            /\ size'[o] = s /\ open[End(o)]
         \/ queue'[l] = queue[l] /\ flight'[l] = flight[l] /\ size'[o] = size[o]
            /\ result'[o] = "failed"
  BY <1>1, <1>4, <1>5 DEF TypeOK, TcpLists
<1>8. ListsAreDriven'
  <2>1. ASSUME NEW e \in Ends, NEW kind \in Kinds
        PROVE  /\ flight'[<<e, kind>>] = "none" <=> queue'[<<e, kind>>] = {}
               /\ \A p \in TcpOps : p \in queue'[<<e, kind>>] => End(p) = e /\ Kind(p) = kind
    <3>1. <<e, kind>> \in TcpLists
      BY Zenon DEF TcpLists
    <3>2. /\ flight[<<e, kind>>] = "none" <=> queue[<<e, kind>>] = {}
          /\ \A p \in TcpOps : p \in queue[<<e, kind>>] => End(p) = e /\ Kind(p) = kind
      BY <1>4, Zenon DEF ListInv, ListsAreDriven
    <3>3. CASE <<e, kind>> = l
      <4>1. End(o) = e /\ Kind(o) = kind
        BY <1>1, <3>3 DEF List
      <4> QED  BY <1>7, <3>2, <3>3, <4>1, Zenon
    <3>4. CASE <<e, kind>> # l
      BY <1>7, <3>1, <3>2, <3>4, Zenon
    <3> QED  BY <3>3, <3>4, Zenon
  <2>2. ASSUME NEW p \in TcpOps, result'[p] = "pending"  PROVE p \in queue'[List(p)]
    <3>1. CASE p = o
      BY <1>1, <1>7, <2>2, <3>1, Zenon
    <3>2. CASE p # o
      <4>1. "a" \in Ends /\ "read" \in Kinds
        BY Zenon DEF Ends, Kinds
      <4>2. p \in queue[List(p)]
        BY <1>4, <1>7, <2>2, <3>2, <4>1, Zenon DEF ListInv, ListsAreDriven
      <4> QED  BY <1>7, <4>2, TcpOrder, Zenon
    <3> QED  BY <3>1, <3>2, Zenon
  <2> QED  BY <2>1, <2>2, Zenon DEF ListsAreDriven, List, End, Kind
<1>9. ASSUME NEW m \in TcpLists  PROVE Phase(m)'
  <2>1. Phase(m)
    BY <1>4, Zenon DEF ListInv
  <2>2. CASE queue'[m] = queue[m] /\ flight'[m] = flight[m]
    <3>1. \A p \in queue[m] : p \in TcpOps /\ p # o
      BY <1>1, <1>3, <1>4, ListedInList, Zenon
    <3> QED  BY <1>2, <1>7, <2>1, <2>2, <3>1, Zenon DEF Phase
  <2>3. CASE m = l /\ queue'[l] = queue[l] \cup {o} /\ queue[l] = {} /\ flight'[l] = "header"
    <3>1. queue'[m] = {o} /\ transferred'[o] = 0 /\ flight'[m] = "header"
      BY <1>2, <1>3, <2>3, Zenon
    <3> QED  BY <3>1, TcpNames DEF Phase
  <2>4. CASE m = l /\ queue'[l] = queue[l] \cup {o} /\ queue[l] # {} /\ flight'[l] = flight[l]
    <3>1. ASSUME NEW p \in queue[l]
          PROVE  (\A q \in queue'[l] : q = p \/ Earlier(p, q))
                   <=> (\A q \in queue[l] : q = p \/ Earlier(p, q))
      BY <1>3, <2>4, Zenon
    <3>2. ~(\A q \in queue'[l] : q = o \/ Earlier(o, q))
      BY <1>3, <2>4, TcpOrder, Zenon
    <3>3. \A p \in queue[l] : size'[p] = size[p] /\ transferred'[p] = transferred[p]
      BY <1>2, <1>3, <1>7, Zenon
    <3>4. ASSUME NEW p \in queue'[l]
          PROVE  IF \A q \in queue'[l] : q = p \/ Earlier(p, q)
                 THEN /\ flight'[l] = "header" <=> transferred'[p] < HeaderSize
                      /\ flight'[l] = "payload" => /\ size'[p] > 0
                                                   /\ transferred'[p] < HeaderSize + size'[p]
                 ELSE transferred'[p] = 0
      <4>1. CASE p = o
        BY <1>2, <1>3, <3>2, <4>1, Zenon
      <4>2. CASE p \in queue[l]
        BY <2>1, <2>4, <3>1, <3>3, <4>2, Zenon DEF Phase
      <4> QED  BY <2>4, <4>1, <4>2, Zenon
    <3> QED  BY <2>4, <3>4, Zenon DEF Phase, Earlier, End, Kind
  <2> QED  BY <1>7, <2>2, <2>3, <2>4, Zenon
<1>10. ASSUME NEW p \in TcpOps  PROVE Called(p)'
  <2>1. Called(p)
    BY <1>4, Zenon DEF ListInv
  <2>2. \A q \in TcpOps : Earlier(q, p) /\ result'[p] # "idle" => result'[q] # "idle"
    BY <1>2, <1>7, <2>1, Zenon DEF Called
  <2>3. CASE p = o
    <3>1. /\ transferred'[o] = 0 /\ result'[o] # "idle"
          /\ o \in queue'[l] => (Kind(o) = "write" => size'[o] > 0)
      BY <1>2, <1>3, <1>7, Zenon
    <3> QED  BY <1>1, <2>2, <2>3, <3>1 DEF Called, Earlier, End, Kind, List
  <2>4. CASE p # o
    <3>1. p \in queue'[List(p)] => p \in queue[List(p)]
      <4>1. List(p) \in TcpLists
        BY TcpOrder, Zenon
      <4> QED  BY <1>7, <2>4, <4>1, Zenon
    <3>2. /\ transferred'[p] = transferred[p] /\ size'[p] = size[p]
          /\ result'[p] = result[p]
      BY <1>2, <1>7, <2>4, Zenon
    <3>3. p \in queue'[List(p)] \/ transferred'[p] > 0 =>
            result'[p] # "idle" /\ (Kind(p) = "write" => size'[p] > 0)
      BY <2>1, <3>1, <3>2, Zenon DEF Called
    <3> QED  BY <2>2, <3>3, Zenon DEF Called, Earlier, End, Kind, List
  <2> QED  BY <2>3, <2>4, Zenon
<1>11. ASSUME NEW p \in TcpOps, Begun(p)
       PROVE  /\ size'[p] = size[p]
              /\ \A q \in queue'[List(p)] : q = p \/ Earlier(p, q)
              /\ \/ WholeFrame(p) \/ p \in queue'[List(p)]
                 \/ queue'[List(p)] = {} /\ ~open'[End(p)]
  <2>1. /\ \A q \in queue[List(p)] : q = p \/ Earlier(p, q)
        /\ WholeFrame(p) \/ p \in queue[List(p)] \/ (queue[List(p)] = {} /\ ~open[End(p)])
        /\ result[p] # "idle" /\ p # o
    BY <1>3, <1>11, BegunIsOldest, Zenon
  <2>2. size'[p] = size[p]
    BY <1>7, <2>1, Zenon
  <2>3. CASE List(p) # l
    <3>1. queue'[List(p)] = queue[List(p)]
      BY <1>7, <2>3, TcpOrder, Zenon
    <3> QED  BY <1>2, <2>1, <2>2, <3>1, Zenon
  <2>4. CASE List(p) = l
    <3>1. Earlier(p, o) /\ End(p) = End(o)
      BY <1>3, <2>1, <2>4, Zenon DEF Earlier
    <3>2. \A q \in queue'[l] : q = p \/ Earlier(p, q)
      BY <1>7, <2>1, <2>4, <3>1, Zenon
    <3> QED  BY <1>2, <1>7, <2>1, <2>2, <2>4, <3>1, <3>2, Zenon
  <2> QED  BY <2>3, <2>4, Zenon
<1>12. ASSUME NEW p \in TcpOps
       PROVE  /\ result'[p] = "success" => result[p] = "success"
              /\ ~Begun(p) /\ Kind(p) = "read" => size'[p] = 0
  <2>1. ~Begun(p) => transferred[p] < HeaderSize
    BY <1>4, TcpNames DEF Begun, TypeOK
  <2>2. ~Begun(p) /\ Kind(p) = "read" => size[p] = 0
    BY <2>1, Zenon DEF TcpInv, StreamInv
  <2>3. CASE p = o
    BY <1>7, <2>2, <2>3, Zenon
  <2>4. CASE p # o
    BY <1>7, <2>2, <2>4, Zenon
  <2> QED  BY <2>3, <2>4, Zenon
<1>13. StreamInv'
  BY <1>2, <1>11, <1>12, StreamStays, Zenon
<1> QED  BY <1>6, <1>8, <1>9, <1>10, <1>13, Zenon DEF TcpInv, ListInv

\* A timeout keeps the invariant: the operation that has begun stays in its list.
LEMMA TcpTimeoutKeeps ==
  ASSUME TcpInv, NEW o \in TcpOps, Timeout(o)
  PROVE  TcpInv'
<1>1. PICK l \in TcpLists : l = List(o)
  BY TcpOrder, Zenon
<1>2. TypeOK /\ ListInv
  BY Zenon DEF TcpInv, ListInv
<1>3. /\ o \in queue[l] /\ timed' = [timed EXCEPT ![o] = FALSE]
      /\ queue' = [queue EXCEPT ![l] = AfterTimeout(o, queue[l])]
      /\ UNCHANGED <<open, byFail, callback, flight, size, transferred, place, moved>>
  BY <1>1, <1>2, Zenon DEF Timeout, TypeOK, TcpLists
<1>4. PICK r \in {"timeout", "failed", "canceled"} : result' = Settle({o}, r)
  BY Zenon DEF Timeout, CloseResult
<1>5. /\ \A p \in queue[l] : p \in TcpOps /\ List(p) = l
      /\ Oldest(queue[l]) \in queue[l]
      /\ \A p \in queue[l] : p = Oldest(queue[l]) \/ Earlier(Oldest(queue[l]), p)
      /\ flight[l] = "none" <=> queue[l] = {}
  <2>1. /\ \A p \in queue[l] : p \in TcpOps /\ List(p) = l
        /\ flight[l] = "none" <=> queue[l] = {}
    BY <1>2, ListedInList, Zenon
  <2> QED  BY <1>3, <2>1, TcpOldest, Zenon
<1>6. PICK first \in queue[l] : first = Oldest(queue[l])
  BY <1>5, Zenon
<1>7. /\ \A p \in TcpOps : p # o => result'[p] = result[p]
      /\ result'[o] = IF result[o] = "pending" THEN r ELSE result[o]
      /\ \A m \in TcpLists : m # l => queue'[m] = queue[m]
      /\ queue'[l] = IF first = o THEN queue[l] ELSE queue[l] \ {o}
  BY <1>2, <1>3, <1>4, <1>6, Zenon DEF Settle, AfterTimeout, TypeOK, TcpLists
<1>8. TypeOK'
  <2>1. timed' \in [TcpOps -> BOOLEAN]
    BY <1>2, <1>3, Zenon DEF TypeOK
  <2>2. open' \in [Ends -> BOOLEAN] /\ byFail' \in [Ends -> BOOLEAN]
    BY <1>2, <1>3, Zenon DEF TypeOK
  <2>3. /\ callback' \in [Ends -> {"none", "stored", "posted"}]
        /\ transferred' \in [TcpOps -> Nat] /\ place' \in [TcpOps -> Nat]
        /\ moved' \in [TcpLists -> Nat] /\ size' \in [TcpOps -> Nat]
        /\ flight' \in [TcpLists -> {"none", "header", "payload"}]
    BY <1>2, <1>3, Zenon DEF TypeOK, TcpLists
  <2>4. result' \in [TcpOps -> {"idle", "pending"} \cup Completed]
    BY <1>2, <1>4, Zenon DEF TypeOK, Completed, Settle
  <2>5. queue' \in [TcpLists -> SUBSET TcpOps]
    BY <1>2, <1>3, Zenon DEF TypeOK, TcpLists, AfterTimeout
  <2> QED  BY <2>1, <2>2, <2>3, <2>4, <2>5, Zenon DEF TypeOK, TcpLists
<1>9. Settles(l, FALSE)
  BY <1>1, <1>3, <1>5, <1>7 DEF Settles, Completed
<1>10. /\ queue'[l] \subseteq queue[l] /\ first \in queue'[l]
       /\ flight'[l] = "none" <=> queue'[l] = {}
  BY <1>3, <1>5, <1>6, <1>7
<1>11. ListsAreDriven'
  BY <1>2, <1>8, <1>9, <1>10, ShrinkingStaysDriven, Zenon
<1>12. ASSUME NEW m \in TcpLists  PROVE Phase(m)'
  <2>1. Phase(m)
    BY <1>2, Zenon DEF ListInv
  <2>2. CASE queue'[m] = queue[m]
    BY <1>3, <2>1, <2>2, Zenon DEF Phase
  <2>3. CASE m = l /\ first # o
    <3>1. ASSUME NEW p \in queue'[l]
          PROVE  (\A q \in queue'[l] : q = p \/ Earlier(p, q))
                   <=> (\A q \in queue[l] : q = p \/ Earlier(p, q))
      <4>1. p \in queue[l] /\ p \in TcpOps /\ first \in TcpOps
        BY <1>5, <1>10, Zenon
      <4>2. (p = first \/ Earlier(p, first)) => p = first
        BY <1>5, <1>6, <4>1, TcpOrder, Zenon
      <4>3. \A q \in queue[l] : q = first \/ Earlier(first, q)
        BY <1>5, <1>6, Zenon
      <4> QED  BY <1>10, <4>2, <4>3, Zenon
    <3>2. ASSUME NEW p \in queue'[l]
          PROVE  IF \A q \in queue'[l] : q = p \/ Earlier(p, q)
                 THEN /\ flight'[l] = "header" <=> transferred'[p] < HeaderSize
                      /\ flight'[l] = "payload" => /\ size'[p] > 0
                                                   /\ transferred'[p] < HeaderSize + size'[p]
                 ELSE transferred'[p] = 0
      BY <1>3, <1>10, <2>1, <2>3, <3>1, Zenon DEF Phase
    <3> QED  BY <2>3, <3>2, Zenon DEF Phase, Earlier, End, Kind
  <2> QED  BY <1>7, <2>2, <2>3, Zenon
<1>13. ASSUME NEW p \in TcpOps  PROVE Called(p)'
  <2>1. Called(p) /\ List(p) \in TcpLists
    BY <1>2, TcpOrder, Zenon DEF ListInv
  <2>2. \A q \in TcpOps : (result'[q] = "idle") <=> (result[q] = "idle")
    BY <1>4, <1>7, Zenon
  <2>3. p \in queue'[List(p)] => p \in queue[List(p)]
    BY <1>7, <1>10, <2>1, Zenon
  <2> QED  BY <1>3, <2>1, <2>2, <2>3, Zenon DEF Called, Earlier, End, Kind, List
<1>14. ASSUME NEW p \in TcpOps, Begun(p)
       PROVE  /\ \A q \in queue'[List(p)] : q = p \/ Earlier(p, q)
              /\ \/ WholeFrame(p) \/ p \in queue'[List(p)]
                 \/ queue'[List(p)] = {} /\ ~open'[End(p)]
  <2>1. /\ \A q \in queue[List(p)] : q = p \/ Earlier(p, q)
        /\ WholeFrame(p) \/ p \in queue[List(p)] \/ (queue[List(p)] = {} /\ ~open[End(p)])
        /\ p \in queue[List(p)] => p = Oldest(queue[List(p)])
    BY <1>14, BegunIsOldest, Zenon
  <2>2. CASE List(p) = l
    BY <1>6, <1>10, <2>1, <2>2, Zenon
  <2>3. CASE List(p) # l
    <3>1. queue'[List(p)] = queue[List(p)]
      BY <1>7, <2>3, TcpOrder, Zenon
    <3> QED  BY <1>3, <2>1, <3>1, Zenon
  <2> QED  BY <2>2, <2>3, Zenon
<1>15. ASSUME NEW p \in TcpOps
       PROVE  /\ result'[p] = "success" => result[p] = "success"
              /\ ~Begun(p) /\ Kind(p) = "read" => size'[p] = 0
  <2>1. ~Begun(p) => transferred[p] < HeaderSize
    BY <1>2, TcpNames DEF Begun, TypeOK
  <2>2. result'[p] = "success" => result[p] = "success"
    BY <1>4, <1>7, Zenon
  <2> QED  BY <1>3, <2>1, <2>2, Zenon DEF TcpInv, StreamInv
<1>16. StreamInv'
  BY <1>3, <1>14, <1>15, StreamStays, Zenon
<1> QED  BY <1>8, <1>11, <1>12, <1>13, <1>16, Zenon DEF TcpInv, ListInv

\* Two new endpoints have empty lists and empty streams.
LEMMA TcpInitially ==
  ASSUME Init
  PROVE  TcpInv
<1>1. TypeOK
  BY Zenon DEF Init, TypeOK
<1>2. /\ \A l \in TcpLists : queue[l] = {} /\ flight[l] = "none" /\ moved[l] = 0
      /\ \A o \in TcpOps : transferred[o] = 0 /\ result[o] = "idle" /\ size[o] = 0
  BY Zenon DEF Init, TcpLists
<1>3. ListsAreDriven
  BY <1>2, Zenon DEF ListsAreDriven, TcpLists
<1>4. ASSUME NEW l \in TcpLists  PROVE Phase(l) /\ Filled(l)
  BY <1>2 DEF Phase, Filled
<1>5. ASSUME NEW o \in TcpOps  PROVE Called(o) /\ ~Begun(o)
  BY <1>2, TcpOrder DEF Called, Begun
<1>6. StreamInv
  BY <1>2, <1>4, <1>5, Zenon DEF StreamInv
<1> QED  BY <1>1, <1>3, <1>4, <1>5, <1>6, Zenon DEF TcpInv, ListInv

\* Every step of the TCP endpoints keeps their invariant.
LEMMA TcpStep ==
  ASSUME TcpInv, Next
  PROVE  TcpInv'
<1>1. ASSUME NEW o \in TcpOps, ReadAsync(o)  PROVE TcpInv'
  BY <1>1, TcpStartKeeps, Zenon DEF ReadAsync
<1>2. ASSUME NEW o \in TcpOps, NEW s \in TcpSizes, WriteAsync(o, s)  PROVE TcpInv'
  <2>1. s \in Nat /\ s > 0
    BY TcpNames
  <2> QED  BY <1>2, <2>1, TcpStartKeeps, Zenon DEF WriteAsync
<1>3. ASSUME NEW o \in TcpOps, Timeout(o)  PROVE TcpInv'
  BY <1>3, TcpTimeoutKeeps, Zenon
<1>4. ASSUME NEW e \in Ends, Invalidate(e) \/ SetDisconnectCallback(e)  PROVE TcpInv'
  BY <1>4, TcpCloseKeeps, Zenon
<1>5. ASSUME NEW e \in Ends, BytesWritten(e) \/ BytesRead(e)  PROVE TcpInv'
  BY <1>5, TcpBytesMove, MovesKeeps, Zenon DEF TcpInv
<1>6. ASSUME NEW e \in Ends, NEW kind \in Kinds, OperationFails(e, kind)  PROVE TcpInv'
  BY <1>6, TcpFailKeeps, Zenon
<1> QED  BY <1>1, <1>2, <1>3, <1>4, <1>5, <1>6, Zenon DEF Next

\* Whole messages in order, from the places of the frames.
LEMMA TcpReadsWhole ==
  ASSUME TcpInv
  PROVE  ReadsGetWholeMessages
<1>1. /\ place \in [TcpOps -> Nat]
      /\ transferred \in [TcpOps -> Nat] /\ size \in [TcpOps -> Nat]
  BY Zenon DEF TcpInv, ListInv, TypeOK
<1>2. ASSUME NEW r \in TcpOps, Kind(r) = "read", Begun(r)
      PROVE  \E w \in TcpOps : Reads(r, w) /\ Sized(r, w)
  BY <1>2, Zenon DEF TcpInv, StreamInv
<1>3. ASSUME NEW r \in TcpOps, NEW w \in TcpOps, WholeFrame(r), Reads(r, w), Sized(r, w)
      PROVE  Whole(r, w)
  BY <1>1, <1>3, TcpNames DEF WholeFrame, Sized, Whole
<1>4. ASSUME NEW r \in TcpOps, Kind(r) = "read", transferred[r] > 0
      PROVE  \E w \in TcpOps :
               /\ Reads(r, w)
               /\ result[r] = "success" => Whole(r, w)
               /\ \A q \in TcpOps : Earlier(q, r) /\ transferred[q] > 0 =>
                    \E v \in TcpOps : Earlier(v, w) /\ Reads(q, v) /\ Whole(q, v)
  <2>1. PICK w \in TcpOps : Reads(r, w) /\ Sized(r, w)
    BY <1>2, <1>4, Zenon DEF Begun
  <2>2. result[r] = "success" => Whole(r, w)
    BY <1>3, <2>1, Zenon DEF TcpInv, StreamInv
  <2>3. ASSUME NEW q \in TcpOps, Earlier(q, r), transferred[q] > 0
        PROVE  \E v \in TcpOps : Earlier(v, w) /\ Reads(q, v) /\ Whole(q, v)
    <3>1. WholeFrame(q) /\ EndOf(q) <= place[r]
      BY <1>4, <2>3, Zenon DEF TcpInv, StreamInv, Placed, Begun
    <3>2. Kind(q) = "read" /\ End(q) = End(r)
      BY <1>4, <2>3, Zenon DEF Earlier
    <3>3. PICK v \in TcpOps : Reads(q, v) /\ Sized(q, v)
      BY <1>2, <2>3, <3>2, Zenon DEF Begun
    <3>4. Whole(q, v)
      BY <1>3, <3>1, <3>3, Zenon
    <3>5. List(v) = List(w) /\ place[v] = place[q] /\ place[w] = place[r]
          /\ Begun(w) /\ Begun(v)
      BY <1>1, <1>4, <2>1, <2>3, <3>2, <3>3 DEF Reads, List, Begun
    <3>6. place[v] < place[w]
      BY <1>1, <2>3, <3>1, <3>5 DEF EndOf
    <3>7. ~Earlier(w, v) /\ w # v
      <4>1. ASSUME Earlier(w, v)  PROVE FALSE
        <5>1. EndOf(w) <= place[v]
          BY <3>5, <4>1, Zenon DEF TcpInv, StreamInv, Placed
        <5> QED  BY <1>1, <3>6, <5>1 DEF EndOf
      <4> QED  BY <1>1, <3>6, <4>1
    <3>8. Earlier(v, w)
      BY <3>5, <3>7, TcpOrder, Zenon
    <3> QED  BY <3>3, <3>4, <3>8, Zenon
  <2> QED  BY <2>1, <2>2, <2>3, Zenon
<1> QED  BY <1>4, Zenon DEF ReadsGetWholeMessages

\* A step of something else keeps the invariant.
LEMMA TcpStutters ==
  ASSUME TcpInv, UNCHANGED tcpVars
  PROVE  TcpInv'
<1>1. UNCHANGED <<open, byFail, callback, queue, flight, size, transferred, place, result, timed, moved>>
  BY Zenon DEF tcpVars
<1>2. /\ open' \in [Ends -> BOOLEAN] /\ byFail' \in [Ends -> BOOLEAN]
      /\ callback' \in [Ends -> {"none", "stored", "posted"}]
  BY <1>1, Zenon DEF TcpInv, ListInv, TypeOK
<1> QED  BY <1>1, <1>2, TcpUntouched, Zenon

\* What makes TcpInv an invariant, and what it says of the endpoint.
LEMMA TcpInductive ==
  /\ Init => TcpInv
  /\ TcpInv /\ [Next]_tcpVars => TcpInv'
  /\ TcpInv => TypeOK /\ ListsAreDriven /\ ReadsGetWholeMessages
<1>1. Init => TcpInv
  BY TcpInitially, Zenon
<1>2. TcpInv /\ [Next]_tcpVars => TcpInv'
  BY TcpStep, TcpStutters, Zenon
<1>3. TcpInv => TypeOK /\ ListsAreDriven /\ ReadsGetWholeMessages
  BY TcpReadsWhole, Zenon DEF TcpInv, ListInv
<1> QED  BY <1>1, <1>2, <1>3, Zenon

\* The endpoints keep the invariant, so a list is driven and reads get whole messages, for any
\* operations, sizes and timeouts.
THEOREM TcpInvariance == Spec => [](TcpInv /\ ListsAreDriven /\ ReadsGetWholeMessages)
  BY TcpInductive, PTL DEF Spec

-----------------------------------------------------------------------------
(* How an endpoint that was closed ends its operations.                    *)

\* The disconnect callback does not stay behind when the socket is closed
CallbacksPosted == \A e \in Ends : ~open[e] => callback[e] # "stored"

\* invalidate_unsafe posts the callback and keeps the reason of an earlier close.
LEMMA TcpCloseNames ==
  ASSUME TypeOK, CallbacksPosted, NEW e \in Ends, NEW byCancel, InvalidateUnsafe(e, byCancel)
  PROVE  CallbacksPosted' /\ \A d \in Ends : ~open[d] => byFail'[d] = byFail[d]
<1>1. /\ byFail' = [byFail EXCEPT ![e] = IF open[e] THEN ~byCancel ELSE byFail[e]]
      /\ open' = [open EXCEPT ![e] = FALSE]
      /\ callback' = [callback EXCEPT ![e] = IF callback[e] = "stored" THEN "posted" ELSE callback[e]]
  BY Zenon DEF InvalidateUnsafe
<1>2. open \in [Ends -> BOOLEAN] /\ byFail \in [Ends -> BOOLEAN]
        /\ callback \in [Ends -> {"none", "stored", "posted"}]
  BY Zenon DEF TypeOK
<1>3. \A d \in Ends : /\ d # e => open'[d] = open[d] /\ callback'[d] = callback[d]
                      /\ d = e => callback'[d] # "stored"
                      /\ ~open[d] => byFail'[d] = byFail[d]
  BY <1>1, <1>2, Zenon
<1>4. ASSUME NEW d \in Ends, ~open'[d] PROVE callback'[d] # "stored"
  BY <1>3, <1>4, Zenon DEF CallbacksPosted
<1> QED  BY <1>3, <1>4, Zenon DEF CallbacksPosted, Ends

\* complete_all_operations_unsafe sets the promises of one list.
LEMMA TcpEndsTheList ==
  ASSUME ListInv, NEW e \in Ends, NEW kind \in Kinds, NEW r, CompleteAll(e, kind, r)
  PROVE  \A p \in TcpOps : result[p] = "pending" =>
           \/ result'[p] = "pending"
           \/ result'[p] = r /\ End(p) = e /\ List(p) = <<e, kind>>
<1> SUFFICES ASSUME NEW p \in TcpOps, result[p] = "pending"
             PROVE  \/ result'[p] = "pending"
                    \/ result'[p] = r /\ End(p) = e /\ List(p) = <<e, kind>>
  BY Zenon
<1>1. result'[p] = IF p \in queue[<<e, kind>>] THEN r ELSE "pending"
  BY Zenon DEF CompleteAll, Settle
<1>2. p \in queue[<<e, kind>>] => End(p) = e /\ Kind(p) = kind
  BY Zenon DEF ListInv, ListsAreDriven
<1> QED  BY <1>1, <1>2, Zenon DEF List, End, Kind

\* What a step that closes nothing does to the reasons and the callbacks: nothing.
LEMMA TcpSameSockets ==
  ASSUME CallbacksPosted, UNCHANGED <<open, byFail, callback>>
  PROVE  CallbacksPosted' /\ \A d \in Ends : ~open[d] => byFail'[d] = byFail[d]
  BY Zenon DEF CallbacksPosted, Ends

\* A handler that got bytes names the closer, or the message was too large.
LEMMA TcpMoveNames ==
  ASSUME ListInv, CallbacksPosted, NEW l \in TcpLists, NEW o, NEW n, NEW s, Moves(l, o, n, s)
  PROVE  CallbacksPosted' /\ NamesTheCloser
<1>1. PICK e \in Ends, kind \in Kinds : l = <<e, kind>> /\ l[1] = e /\ l[2] = kind
  BY DEF TcpLists
<1> DEFINE all == transferred[o] + n
<1>2. /\ Continue(e, kind, all, s) /\ TypeOK
      /\ size' = [size EXCEPT ![o] = s] /\ transferred' = [transferred EXCEPT ![o] = all]
      /\ kind = "write" => s = size[o]
      /\ s \in Nat
  BY <1>1, Zenon DEF Moves, Transfer, ListInv
<1>3. /\ o \in TcpOps /\ o \in queue[l] /\ List(o) = l
      /\ n \in Nat /\ transferred[o] \in Nat /\ size[o] \in Nat
      /\ flight[l] = "header" => all <= HeaderSize
  BY MovesWithinFrame, Zenon
<1>4. transferred'[o] = all /\ size'[o] = s
  BY <1>2, <1>3, Zenon DEF TypeOK
<1>5. Kind(o) = kind /\ (kind = "write" => size[o] > 0)
  BY <1>1, <1>3, Zenon DEF ListInv, ListsAreDriven, Called
<1>6. ASSUME /\ CallbacksPosted' /\ \A d \in Ends : ~open[d] => byFail'[d] = byFail[d]
             /\ \A p \in TcpOps : result[p] = "pending" /\ ~open[End(p)] =>
                  \/ result'[p] \in {"pending", "success", CloseResult(End(p))}
                  \/ result'[p] = "failed" /\ TooLarge(p)
      PROVE  CallbacksPosted' /\ NamesTheCloser
  <2>1. \A p \in TcpOps : End(p) \in Ends
    BY TcpOrder, Zenon
  <2> QED  BY <1>6, <2>1, Zenon DEF NamesTheCloser, CallbacksPosted
<1> HIDE DEF all
<1>7. CASE \E phase : StartNext(e, kind, phase)
  <2>1. UNCHANGED <<open, byFail, callback>>
          /\ (result' = result \/ CompleteAll(e, kind, CloseResult(e)))
    BY <1>7, Zenon DEF StartNext
  <2>2. \A p \in TcpOps : result[p] = "pending" =>
          result'[p] = "pending" \/ (result'[p] = CloseResult(e) /\ End(p) = e)
    BY <2>1, TcpEndsTheList, Zenon
  <2>3. \A p \in TcpOps : result[p] = "pending" =>
          result'[p] \in {"pending", "success", CloseResult(End(p))}
    BY <2>2, Zenon
  <2> QED  BY <1>6, <2>1, <2>3, TcpSameSockets, Zenon
<1>8. CASE /\ ~(all < HeaderSize) /\ flight[l] = "header" /\ s = 0
           /\ InvalidateUnsafe(e, FALSE) /\ CompleteAll(e, kind, "failed")
  <2>1. all = HeaderSize
    <3>1. all \in Nat /\ HeaderSize \in Nat
      BY <1>3, TcpNames DEF all
    <3> QED  BY <1>3, <1>8, <3>1
  <2>2. kind = "read"
    BY <1>2, <1>3, <1>5, <1>8 DEF Kinds
  <2>3. \A p \in TcpOps : List(p) = l => TooLarge(p)
    BY <1>3, <1>4, <1>5, <1>8, <2>1, <2>2, Zenon DEF TooLarge
  <2>4. \A p \in TcpOps : result[p] = "pending" =>
          result'[p] = "pending" \/ (result'[p] = "failed" /\ TooLarge(p))
    BY <1>1, <1>8, <2>3, TcpEndsTheList, Zenon
  <2>5. CallbacksPosted' /\ \A d \in Ends : ~open[d] => byFail'[d] = byFail[d]
    BY <1>2, <1>8, TcpCloseNames, Zenon
  <2> QED  BY <1>6, <2>4, <2>5, Zenon
<1>9. CASE FinishOperation(e, kind)
  <2> DEFINE head == Oldest(queue[<<e, kind>>])
             rest == queue[<<e, kind>>] \ {head}
             done == Settle({head}, "success")
  <2>1. /\ result' = [p \in TcpOps |-> IF ~open[e] /\ p \in rest /\ done[p] = "pending"
                                       THEN CloseResult(e) ELSE done[p]]
        /\ UNCHANGED <<open, byFail, callback>>
    BY <1>9, Zenon DEF FinishOperation
  <2>2. \A p \in TcpOps : result[p] = "pending" => done[p] \in {"pending", "success"}
    BY Zenon DEF Settle
  <2>3. \A p \in TcpOps : p \in rest => End(p) = e
    BY Zenon DEF ListInv, ListsAreDriven
  <2> HIDE DEF done, rest
  <2>4. \A p \in TcpOps : result[p] = "pending" =>
          result'[p] \in {"pending", "success", CloseResult(End(p))}
    BY <2>1, <2>2, <2>3, Zenon
  <2> QED  BY <1>6, <2>1, <2>4, TcpSameSockets, Zenon
<1>10. Continue(e, kind, all, s) =>
         \/ \E phase : StartNext(e, kind, phase)
         \/ /\ ~(all < HeaderSize) /\ flight[l] = "header" /\ s = 0
            /\ InvalidateUnsafe(e, FALSE) /\ CompleteAll(e, kind, "failed")
         \/ FinishOperation(e, kind)
  BY <1>1, Zenon DEF Continue
<1> QED  BY <1>2, <1>7, <1>8, <1>9, <1>10, Zenon

\* Every step of an endpoint that is closed gives its pending operations the result of who
\* closed it.
LEMMA TcpNamesTheCloser ==
  ASSUME TcpInv, CallbacksPosted, [Next]_tcpVars
  PROVE  CallbacksPosted' /\ NamesTheCloser
<1>1. ListInv /\ TypeOK /\ \A p \in TcpOps : End(p) \in Ends
  BY TcpOrder, Zenon DEF TcpInv, ListInv
<1>2. ASSUME /\ CallbacksPosted' /\ \A d \in Ends : ~open[d] => byFail'[d] = byFail[d]
             /\ \A p \in TcpOps : result[p] = "pending" /\ ~open[End(p)] =>
                  result'[p] \in {"pending", "success", CloseResult(End(p))}
      PROVE  CallbacksPosted' /\ NamesTheCloser
  BY <1>1, <1>2, Zenon DEF NamesTheCloser, CallbacksPosted
<1>3. ASSUME NEW o \in TcpOps, NEW s, StartOperation(o, s) PROVE CallbacksPosted' /\ NamesTheCloser
  <2>1. /\ result[o] = "idle" /\ UNCHANGED <<open, byFail, callback>>
        /\ \E r : result' = [result EXCEPT ![o] = r]
    BY <1>3, Zenon DEF StartOperation
  <2>2. \A p \in TcpOps : result[p] = "pending" => result'[p] = "pending"
    BY <1>1, <2>1, Zenon DEF TypeOK
  <2> QED  BY <1>2, <2>1, <2>2, TcpSameSockets, Zenon
<1>4. ASSUME NEW o \in TcpOps, Timeout(o) PROVE CallbacksPosted' /\ NamesTheCloser
  <2>1. /\ result' = Settle({o}, IF open[End(o)] THEN "timeout" ELSE CloseResult(End(o)))
        /\ UNCHANGED <<open, byFail, callback>>
    BY <1>4, Zenon DEF Timeout
  <2>2. \A p \in TcpOps : result[p] = "pending" /\ ~open[End(p)] =>
          result'[p] \in {"pending", CloseResult(End(p))}
    BY <2>1, Zenon DEF Settle
  <2>3. \A p \in TcpOps : result[p] = "pending" /\ ~open[End(p)] =>
          result'[p] \in {"pending", "success", CloseResult(End(p))}
    BY <2>2, Zenon
  <2> QED  BY <1>2, <2>1, <2>3, TcpSameSockets, Zenon
<1>5. ASSUME NEW e \in Ends, Invalidate(e) PROVE CallbacksPosted' /\ NamesTheCloser
  <2>1. InvalidateUnsafe(e, TRUE) /\ UNCHANGED result
    BY <1>5, Zenon DEF Invalidate
  <2>2. CallbacksPosted' /\ \A d \in Ends : ~open[d] => byFail'[d] = byFail[d]
    BY <1>1, <2>1, TcpCloseNames, Zenon
  <2> QED  BY <1>2, <2>1, <2>2, Zenon
<1>6. ASSUME NEW e \in Ends, SetDisconnectCallback(e) PROVE CallbacksPosted' /\ NamesTheCloser
  <2>1. /\ callback' = [callback EXCEPT ![e] = IF open[e] THEN "stored" ELSE "posted"]
        /\ UNCHANGED <<open, byFail, result>>
        /\ callback \in [Ends -> {"none", "stored", "posted"}]
    BY <1>1, <1>6, Zenon DEF SetDisconnectCallback, TypeOK
  <2>2. ASSUME NEW d \in Ends, ~open'[d] PROVE callback'[d] # "stored"
    BY <2>1, <2>2, Zenon DEF CallbacksPosted
  <2>3. CallbacksPosted'
    BY <2>2, Zenon DEF CallbacksPosted, Ends
  <2> QED  BY <1>2, <2>1, <2>3, Zenon
<1>7. ASSUME NEW e \in Ends, NEW kind \in Kinds, OperationFails(e, kind)
      PROVE  CallbacksPosted' /\ NamesTheCloser
  <2>1. CASE open[e]
    <3>1. InvalidateUnsafe(e, FALSE) /\ CompleteAll(e, kind, "failed")
      BY <1>7, <2>1, Zenon DEF OperationFails
    <3>2. \A p \in TcpOps : result[p] = "pending" /\ ~open[End(p)] => result'[p] = "pending"
      BY <1>1, <2>1, <3>1, TcpEndsTheList, Zenon
    <3>3. CallbacksPosted' /\ \A d \in Ends : ~open[d] => byFail'[d] = byFail[d]
      BY <1>1, <3>1, TcpCloseNames, Zenon
    <3> QED  BY <1>2, <3>2, <3>3, Zenon
  <2>2. CASE ~open[e]
    <3>1. CompleteAll(e, kind, CloseResult(e)) /\ UNCHANGED <<open, byFail, callback>>
      BY <1>7, <2>2, Zenon DEF OperationFails
    <3>2. \A p \in TcpOps : result[p] = "pending" =>
            result'[p] = "pending" \/ (result'[p] = CloseResult(e) /\ End(p) = e)
      BY <1>1, <3>1, TcpEndsTheList, Zenon
    <3>3. \A p \in TcpOps : result[p] = "pending" =>
            result'[p] \in {"pending", "success", CloseResult(End(p))}
      BY <3>2, Zenon
    <3> QED  BY <1>2, <3>1, <3>3, TcpSameSockets, Zenon
  <2> QED  BY <2>1, <2>2, Zenon
<1>8. ASSUME NEW e \in Ends, BytesWritten(e) \/ BytesRead(e) PROVE CallbacksPosted' /\ NamesTheCloser
  BY <1>1, <1>8, TcpBytesMove, TcpMoveNames, Zenon
<1>9. CASE UNCHANGED tcpVars
  <2>1. UNCHANGED <<open, byFail, callback, result>>
    BY <1>9, Zenon DEF tcpVars
  <2> QED  BY <1>2, <2>1, TcpSameSockets, Zenon
<1> QED
  BY <1>3, <1>4, <1>5, <1>6, <1>7, <1>8, <1>9, Zenon DEF Next, ReadAsync, WriteAsync

\* No callback waits on a new endpoint, and none on a closed one; what is pending when an
\* endpoint is found closed completes as "canceled" after invalidate() and as "failed" after
\* a loss, unless it succeeds or a message that is too large had come.
LEMMA TcpCloserNamed ==
  /\ Init => CallbacksPosted
  /\ TcpInv /\ CallbacksPosted /\ [Next]_tcpVars => CallbacksPosted' /\ NamesTheCloser
<1>1. Init => CallbacksPosted
  BY Zenon DEF Init, CallbacksPosted
<1> QED  BY <1>1, TcpNamesTheCloser, Zenon

=============================================================================
