-------------------------- MODULE SequenceModelProofs --------------------------
(***************************************************************************)
(* Proofs about sequence_model: for any number of elements, views and      *)
(* commands, every view that has been told mirrors the model, and no       *)
(* command of an attached widget holds a dead key.                         *)
(***************************************************************************)
EXTENDS SequenceModel, SeqLemmas

\* What the attachments are: each view once, controllers among the views.
Attached ==
    /\ view_set \in Seq(Widget) /\ pending \in Seq(Widget)
    /\ \A i, j \in DOMAIN view_set : view_set[i] = view_set[j] => i = j
    /\ \A i, j \in DOMAIN pending : pending[i] = pending[j] => i = j
    /\ ToSet(pending) \subseteq ToSet(view_set)
    /\ controller_set \subseteq ToSet(view_set)

Copies == /\ set_m = [w \in Widget |-> set_m[w]]
          /\ printed = [w \in Widget |-> printed[w]]

\* A view still to be told is behind by exactly the message.
PendingBehind ==
    \A w \in ToSet(pending) : Told(message, set_m[w]) = storage

MirrorInv == Attached /\ Copies /\ PendingBehind /\ ViewsMirror /\ ViewsFindKeys

------------------------------------------------------------------------------
(* Facts about lists of widgets *)

LEMMA RemoveSet ==
    ASSUME NEW S, NEW s \in Seq(S), NEW w \in ToSet(s),
           \A i, j \in DOMAIN s : s[i] = s[j] => i = j
    PROVE  LET t == RemoveAt(s, iterator_for(s, w))
           IN /\ t \in Seq(S)
              /\ \A i, j \in DOMAIN t : t[i] = t[j] => i = j
              /\ ToSet(t) = ToSet(s) \ {w}
<1>1. iterator_for(s, w) \in DOMAIN s /\ s[iterator_for(s, w)] = w
  BY DEF iterator_for, ToSet
<1>2. QED
  BY <1>1, RemoveAtSet

------------------------------------------------------------------------------
(* The invariant *)

LEMMA InitMirror == Init => MirrorInv
<1> SUFFICES ASSUME Init PROVE MirrorInv
  OBVIOUS
<1>1. /\ view_set = <<>> /\ pending = <<>> /\ controller_set = {}
      /\ set_m = [w \in Widget |-> <<>>] /\ printed = [w \in Widget |-> <<>>]
  BY DEF Init
<1>2. <<>> \in Seq(Widget)
  BY EmptySeq
<1>3. ToSet(<<>>) = {}
  BY <1>2, ToSetOf
<1>4. Attached
  BY <1>1, <1>2, <1>3 DEF Attached
<1>5. Copies
  BY <1>1 DEF Copies
<1>6. PendingBehind /\ ViewsMirror /\ ViewsFindKeys
  BY <1>1, <1>3 DEF PendingBehind, ViewsMirror, ViewsFindKeys
<1>7. QED
  BY <1>4, <1>5, <1>6 DEF MirrorInv

\* At rest every view mirrors the model.
LEMMA AtRest ==
    ASSUME MirrorInv, Idle
    PROVE  \A w \in ToSet(view_set) : set_m[w] = storage /\ printed[w] = Contents
<1>1. ToSet(pending) = {}
  BY ToSetOf DEF Idle, MirrorInv, Attached
<1>2. QED
  BY <1>1 DEF MirrorInv, ViewsMirror

\* A command: the model changes as the message says the views are to change.
LEMMA BroadcastMirror ==
    ASSUME MirrorInv, Idle, NEW m, broadcast(m),
           storage' = Told(m, storage),
           m.what = "erase" => m.keys \subseteq Keys,
           m.what = "refresh" => m.key \in Keys
    PROVE  MirrorInv'
<1>1. /\ message' = IF view_set = <<>> THEN none ELSE m
      /\ pending' = view_set
      /\ view_set' = view_set /\ controller_set' = controller_set
      /\ set_m' = set_m /\ printed' = printed
  BY DEF broadcast, attach_vars, widget_vars
<1>2. \A w \in ToSet(view_set) : set_m[w] = storage
  BY AtRest
<1>3. ToSet(pending') = ToSet(view_set) /\ ToSet(view_set') = ToSet(view_set)
  BY <1>1
<1>4. \A w \in ToSet(view_set) : message' = m
  <2>1. view_set = <<>> => ToSet(view_set) = {}
    BY ToSetOf DEF MirrorInv, Attached
  <2>2. QED
    BY <2>1, <1>1
<1>5. Attached'
  BY <1>1 DEF MirrorInv, Attached
<1>6. Copies'
  BY <1>1 DEF MirrorInv, Copies
<1>7. PendingBehind'
  BY <1>1, <1>2, <1>3, <1>4 DEF PendingBehind
<1>8. ViewsMirror'
  BY <1>3 DEF ViewsMirror
<1>9. ViewsFindKeys'
  BY <1>1, <1>2, <1>3, <1>4 DEF ViewsFindKeys, HasKey, Keys
<1>10. QED
  BY <1>5, <1>6, <1>7, <1>8, <1>9 DEF MirrorInv

LEMMA InsertMirror ==
    ASSUME MirrorInv, NEW w, NEW before, NEW values, insert_set(w, before, values)
    PROVE  MirrorInv'
<1>1. PICK keys : /\ storage' = InsertBefore(storage, before, keys)
                  /\ broadcast([what |-> "extend_set", before |-> before, keys |-> keys])
  BY DEF insert_set
<1> DEFINE m == [what |-> "extend_set", before |-> before, keys |-> keys]
<1>2. m.what = "extend_set" /\ m.before = before /\ m.keys = keys
  OBVIOUS
<1> HIDE DEF m
<1>3. storage' = Told(m, storage)
  BY <1>1, <1>2 DEF Told
<1>4. broadcast(m) /\ Idle
  BY <1>1 DEF m, insert_set, Commands
<1>5. m.what # "erase" /\ m.what # "refresh"
  BY <1>2
<1>6. QED
  BY <1>3, <1>4, <1>5, BroadcastMirror

LEMMA SetMirror ==
    ASSUME MirrorInv, NEW w, NEW key, NEW x, set(w, key, x)
    PROVE  MirrorInv'
<1> DEFINE m == [what |-> "refresh", key |-> key]
<1>1. m.what = "refresh" /\ m.key = key
  OBVIOUS
<1>2. broadcast(m) /\ Idle /\ key \in Keys /\ storage' = storage
  BY DEF set, Commands
<1> HIDE DEF m
<1>3. storage' = Told(m, storage)
  BY <1>1, <1>2 DEF Told
<1>4. m.what # "erase"
  BY <1>1
<1>5. QED
  BY <1>1, <1>2, <1>3, <1>4, BroadcastMirror

LEMMA EraseMirror ==
    ASSUME MirrorInv, NEW w, NEW keys, erase(w, keys)
    PROVE  MirrorInv'
<1> DEFINE m == [what |-> "erase", keys |-> keys]
<1>1. m.what = "erase" /\ m.keys = keys
  OBVIOUS
<1>2. broadcast(m) /\ Idle /\ keys \subseteq Keys /\ storage' = Without(storage, keys)
  BY DEF erase, Commands
<1> HIDE DEF m
<1>3. storage' = Told(m, storage)
  BY <1>1, <1>2 DEF Told
<1>4. m.what # "refresh"
  BY <1>1
<1>5. QED
  BY <1>1, <1>2, <1>3, <1>4, BroadcastMirror

LEMMA ClearMirror ==
    ASSUME MirrorInv, NEW w, clear(w)
    PROVE  MirrorInv'
<1> DEFINE m == [what |-> "clear"]
<1>1. m.what = "clear"
  OBVIOUS
<1>2. broadcast(m) /\ Idle /\ storage' = <<>>
  BY DEF clear, Commands
<1> HIDE DEF m
<1>3. storage' = Told(m, storage)
  BY <1>1, <1>2 DEF Told
<1>4. m.what # "refresh" /\ m.what # "erase"
  BY <1>1
<1>5. QED
  BY <1>2, <1>3, <1>4, BroadcastMirror

LEMMA NotifyMirror ==
    ASSUME MirrorInv, notify
    PROVE  MirrorInv'
<1> DEFINE v == Head(pending)
<1>1. /\ pending \in Seq(Widget) /\ pending # <<>>
      /\ \A i, j \in DOMAIN pending : pending[i] = pending[j] => i = j
  BY DEF MirrorInv, Attached, notify, Idle
<1>2. /\ Tail(pending) \in Seq(Widget)
      /\ \A i, j \in DOMAIN Tail(pending) : Tail(pending)[i] = Tail(pending)[j] => i = j
      /\ v \in ToSet(pending)
      /\ ToSet(Tail(pending)) = ToSet(pending) \ {v}
  BY <1>1, TailSet
<1>3. v \in Widget /\ v \in ToSet(view_set)
  BY <1>1, <1>2, ToSetOf DEF MirrorInv, Attached
<1>4. /\ pending' = Tail(pending)
      /\ message' = IF Tail(pending) = <<>> THEN none ELSE message
      /\ Prints(v, Told(message, set_m[v]))
      /\ storage' = storage /\ value' = value
      /\ view_set' = view_set /\ controller_set' = controller_set
  BY DEF notify, model_vars, attach_vars
<1>5. Told(message, set_m[v]) = storage
  BY <1>2 DEF MirrorInv, PendingBehind
<1> HIDE DEF v
<1>6. /\ set_m' = [set_m EXCEPT ![v] = storage]
      /\ printed' = [printed EXCEPT ![v] = Contents]
  BY <1>4, <1>5 DEF Prints, Contents
<1>7. /\ set_m'[v] = storage /\ printed'[v] = Contents
      /\ \A w \in Widget \ {v} : set_m'[w] = set_m[w] /\ printed'[w] = printed[w]
      /\ set_m' = [w \in Widget |-> set_m'[w]] /\ printed' = [w \in Widget |-> printed'[w]]
  BY <1>3, <1>6 DEF MirrorInv, Copies
<1>8. ToSet(pending') = ToSet(pending) \ {v} /\ ToSet(view_set') = ToSet(view_set)
      /\ ToSet(view_set) \subseteq Widget /\ ToSet(pending) \subseteq ToSet(view_set)
      /\ Contents' = Contents
  BY <1>2, <1>4, ToSetOf DEF MirrorInv, Attached, Contents
<1>9. \A w \in ToSet(pending') : message' = message /\ w \in ToSet(pending) /\ set_m'[w] = set_m[w]
  <2>1. Tail(pending) = <<>> => ToSet(Tail(pending)) = {}
    BY <1>2, ToSetOf
  <2>2. QED
    BY <2>1, <1>2, <1>4, <1>7, <1>8
<1>10. Attached'
  BY <1>2, <1>4, <1>8 DEF MirrorInv, Attached
<1>11. Copies'
  BY <1>7 DEF Copies
<1>12. PendingBehind'
  BY <1>4, <1>9 DEF MirrorInv, PendingBehind
<1>13. ViewsMirror'
  <2> SUFFICES ASSUME NEW w \in ToSet(view_set), w \notin ToSet(pending')
               PROVE  set_m'[w] = storage /\ printed'[w] = Contents
    BY <1>4, <1>8 DEF ViewsMirror
  <2>1. CASE w = v
    BY <2>1, <1>7
  <2>2. CASE w # v
    <3>1. w \notin ToSet(pending) /\ w \in Widget \ {v}
      BY <2>2, <1>8
    <3>2. QED
      BY <3>1, <1>7 DEF MirrorInv, ViewsMirror
  <2>3. QED
    BY <2>1, <2>2
<1>14. ViewsFindKeys'
  BY <1>9 DEF MirrorInv, ViewsFindKeys, HasKey
<1>15. QED
  BY <1>10, <1>11, <1>12, <1>13, <1>14 DEF MirrorInv

\* Between changes the attachments may change: it is enough that every view
\* then attached mirrors the model.
LEMMA AttachmentMirror ==
    ASSUME pending = <<>>, pending' = pending, Attached', Copies',
           \A w \in ToSet(view_set') : set_m'[w] = storage' /\ printed'[w] = Contents'
    PROVE  MirrorInv'
<1>1. ToSet(pending') = {}
  BY EmptySeq, ToSetOf
<1>2. PendingBehind' /\ ViewsFindKeys' /\ ViewsMirror'
  BY <1>1 DEF PendingBehind, ViewsFindKeys, ViewsMirror
<1>3. QED
  BY <1>2 DEF MirrorInv

LEMMA AttachViewMirror ==
    ASSUME MirrorInv, NEW w \in Widget, attach_view(w)
    PROVE  MirrorInv'
<1>1. /\ pending = <<>> /\ pending' = pending /\ w \notin ToSet(view_set)
      /\ view_set' = Append(view_set, w) /\ controller_set' = controller_set
      /\ storage' = storage /\ value' = value
  BY DEF attach_view, Idle, Contains, ToSet, model_vars
<1>2. /\ set_m' = [set_m EXCEPT ![w] = storage]
      /\ printed' = [printed EXCEPT ![w] = Contents]
  BY DEF attach_view, Prints, Contents
<1>3. /\ view_set' \in Seq(Widget) /\ ToSet(view_set') = ToSet(view_set) \cup {w}
      /\ \A i, j \in DOMAIN view_set' : view_set'[i] = view_set'[j] => i = j
  BY <1>1, AppendSet DEF MirrorInv, Attached
<1>4. Attached'
  BY <1>1, <1>3 DEF MirrorInv, Attached
<1>5. /\ set_m'[w] = storage /\ printed'[w] = Contents
      /\ \A u \in Widget \ {w} : set_m'[u] = set_m[u] /\ printed'[u] = printed[u]
      /\ set_m' = [u \in Widget |-> set_m'[u]] /\ printed' = [u \in Widget |-> printed'[u]]
  BY <1>2 DEF MirrorInv, Copies
<1>6. Copies'
  BY <1>5 DEF Copies
<1>7. \A u \in ToSet(view_set) : u \in Widget \ {w} /\ set_m[u] = storage /\ printed[u] = Contents
  <2>1. ToSet(view_set) \subseteq Widget
    BY ToSetOf DEF MirrorInv, Attached
  <2>2. QED
    BY <2>1, <1>1, AtRest DEF Idle
<1>8. Contents' = Contents
  BY <1>1 DEF Contents
<1>9. \A u \in ToSet(view_set') : set_m'[u] = storage' /\ printed'[u] = Contents'
  BY <1>1, <1>3, <1>5, <1>7, <1>8
<1>10. QED
  BY <1>1, <1>4, <1>6, <1>9, AttachmentMirror

LEMMA DetachViewMirror ==
    ASSUME MirrorInv, NEW w \in Widget, detach_view(w)
    PROVE  MirrorInv'
<1>1. /\ pending = <<>> /\ pending' = pending
      /\ w \in ToSet(view_set) /\ w \notin controller_set
      /\ view_set' = RemoveAt(view_set, iterator_for(view_set, w))
      /\ controller_set' = controller_set
      /\ storage' = storage /\ value' = value /\ set_m' = set_m /\ printed' = printed
  BY DEF detach_view, Idle, Contains, ToSet, model_vars, widget_vars
<1>2. /\ view_set' \in Seq(Widget) /\ ToSet(view_set') = ToSet(view_set) \ {w}
      /\ \A i, j \in DOMAIN view_set' : view_set'[i] = view_set'[j] => i = j
  BY <1>1, RemoveSet DEF MirrorInv, Attached
<1>3. ToSet(pending) = {}
  BY <1>1, EmptySeq, ToSetOf
<1>4. Attached'
  BY <1>1, <1>2, <1>3 DEF MirrorInv, Attached
<1>5. Copies'
  BY <1>1 DEF MirrorInv, Copies
<1>6. Contents' = Contents
  BY <1>1 DEF Contents
<1>7. \A u \in ToSet(view_set') : set_m'[u] = storage' /\ printed'[u] = Contents'
  BY <1>1, <1>2, <1>6, AtRest DEF Idle
<1>8. QED
  BY <1>1, <1>4, <1>5, <1>7, AttachmentMirror

LEMMA ControllerMirror ==
    ASSUME MirrorInv, NEW w \in Widget, attach_controller(w) \/ detach_controller(w)
    PROVE  MirrorInv'
<1>1. /\ pending = <<>> /\ pending' = pending /\ view_set' = view_set
      /\ storage' = storage /\ value' = value /\ set_m' = set_m /\ printed' = printed
      /\ controller_set' \subseteq ToSet(view_set)
  BY DEF attach_controller, detach_controller, Idle, Contains, ToSet, model_vars,
         widget_vars, MirrorInv, Attached
<1>2. Attached'
  BY <1>1 DEF MirrorInv, Attached
<1>3. Copies'
  BY <1>1 DEF MirrorInv, Copies
<1>4. Contents' = Contents
  BY <1>1 DEF Contents
<1>5. \A u \in ToSet(view_set') : set_m'[u] = storage' /\ printed'[u] = Contents'
  BY <1>1, <1>4, AtRest DEF Idle
<1>6. QED
  BY <1>1, <1>2, <1>3, <1>5, AttachmentMirror

LEMMA StutterMirror ==
    ASSUME MirrorInv, UNCHANGED vars
    PROVE  MirrorInv'
<1>1. /\ storage' = storage /\ value' = value /\ view_set' = view_set
      /\ controller_set' = controller_set /\ set_m' = set_m /\ printed' = printed
      /\ message' = message /\ pending' = pending
  BY DEF vars, model_vars, attach_vars, widget_vars
<1>2. QED
  BY <1>1 DEF MirrorInv, Attached, Copies, PendingBehind, ViewsMirror, ViewsFindKeys,
              Contents, HasKey

LEMMA NextMirror == MirrorInv /\ [Next]_vars => MirrorInv'
<1> SUFFICES ASSUME MirrorInv, [Next]_vars PROVE MirrorInv'
  OBVIOUS
<1>1. ASSUME NEW w \in Widget, NEW x \in Value, push_back(w, x) PROVE MirrorInv'
  BY <1>1, InsertMirror DEF push_back
<1>2. ASSUME NEW w \in Widget, NEW x \in Value, NEW key \in Key, insert(w, key, x)
      PROVE MirrorInv'
  BY <1>2, InsertMirror DEF insert
<1>3. ASSUME NEW w \in Widget, NEW x \in Value, NEW key \in Key, set(w, key, x)
      PROVE MirrorInv'
  BY <1>3, SetMirror
<1>4. ASSUME NEW w \in Widget, NEW before \in Key \cup {nkey}, NEW x \in Value,
             NEW y \in Value, insert_set(w, before, <<x, y>>)
      PROVE MirrorInv'
  BY <1>4, InsertMirror
<1>5. ASSUME NEW w \in Widget, NEW keys \in SUBSET Key, erase(w, keys) PROVE MirrorInv'
  BY <1>5, EraseMirror
<1>6. ASSUME NEW w \in Widget, clear(w) PROVE MirrorInv'
  BY <1>6, ClearMirror
<1>7. ASSUME NEW w \in Widget, attach_view(w) PROVE MirrorInv'
  BY <1>7, AttachViewMirror
<1>8. ASSUME NEW w \in Widget, attach_controller(w) \/ detach_controller(w) PROVE MirrorInv'
  BY <1>8, ControllerMirror
<1>9. ASSUME NEW w \in Widget, detach_view(w) PROVE MirrorInv'
  BY <1>9, DetachViewMirror
<1>10. CASE notify
  BY <1>10, NotifyMirror
<1>11. CASE UNCHANGED vars
  BY <1>11, StutterMirror
<1>12. QED
  BY <1>1, <1>2, <1>3, <1>4, <1>5, <1>6, <1>7, <1>8, <1>9, <1>10, <1>11 DEF Next

------------------------------------------------------------------------------
(* The theorems *)

\* The inductive invariant: a view that has not been told of the last change is
\* behind by exactly the message it is about to be told.
THEOREM Mirroring == Spec => []MirrorInv
<1>1. Init => MirrorInv
  BY InitMirror
<1>2. MirrorInv /\ [Next]_vars => MirrorInv'
  BY NextMirror
<1>3. QED
  BY <1>1, <1>2, PTL DEF Spec

\* sequence_model's broadcasts and attach_view keep every attached view equal to
\* the model, for any number of views and elements and any reuse of addresses.
THEOREM ViewsAlwaysMirror == Spec => []ViewsMirror
<1>1. MirrorInv => ViewsMirror
  BY DEF MirrorInv
<1>2. QED
  BY <1>1, Mirroring, PTL

\* No view is told to erase or refresh a key it does not have.
THEOREM ViewsAlwaysFindKeys == Spec => []ViewsFindKeys
<1>1. MirrorInv => ViewsFindKeys
  BY DEF MirrorInv
<1>2. QED
  BY <1>1, Mirroring, PTL

\* The keys an attached widget can put in a command are live: set and erase
\* never dereference or erase the end of the list.
THEOREM CommandKeysStayLive == Spec => []CommandKeysLive
<1>1. MirrorInv => CommandKeysLive
  <2> SUFFICES ASSUME MirrorInv, Idle, NEW w \in controller_set
               PROVE  ToSet(set_m[w]) \subseteq Keys
    BY DEF CommandKeysLive
  <2>1. set_m[w] = storage
    BY AtRest DEF MirrorInv, Attached
  <2>2. QED
    BY <2>1 DEF Keys
<1>2. QED
  BY <1>1, Mirroring, PTL
===============================================================================
