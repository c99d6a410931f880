--------------------------- MODULE CallbacksProofs ---------------------------
(***************************************************************************)
(* What the calls that come back from inside a call leave true, for every  *)
(* value, command and sentence: debounce_t, command_system_t, the sentence *)
(* command system, button_t of several states, and the widgets of one      *)
(* cell.                                                                   *)
(***************************************************************************)
EXTENDS Callbacks, SeqLemmas

all_vars == <<part, debounce_vars, command_vars, button_vars, widget_vars, sentence_vars>>

------------------------------------------------------------------------------
(* debounce_t: its invariant *)

\* What remains when the innermost call returns: no, one or two calls of
\* set_model_value that have not marked the first time as over.
Mark == <<"not_first_time", default>>
Marks0 == <<>>
Marks1 == Cons(Mark, Marks0)
Marks2 == Cons(Mark, Marks1)
Marks == {Marks0, Marks1, Marks2}

DebounceTypes ==
    /\ cell \in DebounceValue /\ control \in DebounceValue
    /\ type_1_debounce_m \in DebounceValue /\ asked \in DebounceValue
    /\ type_2_debounce_m \in BOOLEAN /\ first_time_m \in BOOLEAN
    /\ todo \in Seq(D!Step)

\* The calls come back.
Returning ==
    /\ Feedback => /\ cell = asked /\ control = asked /\ type_1_debounce_m = asked
                   /\ ~type_2_debounce_m
    /\ todo \in Marks
    /\ todo = Marks2 => first_time_m

\* The user's call of set_model_value(v).
Edited(v, r) ==
    /\ r = Marks0
    /\ Feedback => control = v /\ asked = Accept[v] /\ ~type_2_debounce_m

\* The control's, called back while it is changed.
FedBack(v, r) ==
    /\ r # Marks2
    /\ control = v /\ cell = v /\ type_1_debounce_m = v /\ asked = v /\ Accept[v] = v
    /\ type_2_debounce_m

\* The model is asked for v.
Sending(v, r) ==
    /\ r # Marks0
    /\ type_1_debounce_m = v /\ ~type_2_debounce_m
    /\ Feedback => control = v /\ asked = Accept[v]
    /\ r = Marks2 => first_time_m /\ Accept[v] = v

\* The model displays v.
Showing(v, r) ==
    /\ cell = v /\ Accept[v] = v
    /\ Feedback => asked = v /\ control = type_1_debounce_m /\ ~type_2_debounce_m
    /\ r = Marks2 => first_time_m /\ type_1_debounce_m = v

\* The control is given v.
Changing(v, r) ==
    /\ r # Marks2
    /\ cell = v /\ type_1_debounce_m = v /\ Accept[v] = v /\ type_2_debounce_m
    /\ Feedback => asked = v

InCall(v, r) ==
    \/ todo = Cons(<<"set_model_value", v>>, r) /\ (Edited(v, r) \/ FedBack(v, r))
    \/ todo = Cons(<<"set_model", v>>, r) /\ Sending(v, r)
    \/ todo = Cons(<<"display", v>>, r) /\ Showing(v, r)
    \/ todo = Cons(<<"monitor_model", v>>, r) /\ Changing(v, r)

DebounceInv ==
    /\ DebounceTypes
    /\ Returning \/ \E v \in DebounceValue, r \in Marks : InCall(v, r)

------------------------------------------------------------------------------
(* debounce_t: the steps *)

LEMMA DebounceConstants ==
    /\ Accept \in [DebounceValue -> DebounceValue]
    /\ \A v \in DebounceValue : Accept[Accept[v]] = Accept[v]
    /\ default \in DebounceValue /\ Accept[default] = default
    /\ Feedback \in BOOLEAN
BY CallbacksAssumption DEF D!DebounceAssumption

LEMMA StepTypes ==
    /\ Mark \in D!Step
    /\ \A v \in DebounceValue :
           /\ <<"set_model_value", v>> \in D!Step /\ <<"set_model", v>> \in D!Step
           /\ <<"display", v>> \in D!Step /\ <<"monitor_model", v>> \in D!Step
BY DebounceConstants DEF Mark, D!Step, D!Calls

LEMMA MarksSeq ==
    /\ \A r \in Marks : r \in Seq(D!Step)
    /\ Len(Marks0) = 0 /\ Len(Marks1) = 1 /\ Len(Marks2) = 2
    /\ Marks0 = <<>> /\ Marks1 # <<>> /\ Marks2 # <<>>
    /\ Head(Marks1) = Mark /\ Tail(Marks1) = Marks0
    /\ Head(Marks2) = Mark /\ Tail(Marks2) = Marks1
<1>1. Marks0 \in Seq(D!Step) /\ Len(Marks0) = 0
  BY DEF Marks0
<1>2. ASSUME NEW s \in Seq(D!Step)
      PROVE  /\ Cons(Mark, s) \in Seq(D!Step) /\ Len(Cons(Mark, s)) = 1 + Len(s)
             /\ Cons(Mark, s) # <<>> /\ Head(Cons(Mark, s)) = Mark /\ Tail(Cons(Mark, s)) = s
  <2>1. Mark \in D!Step
    BY StepTypes
  <2>2. QED
    BY <2>1, ConsAt, ConsSeq
<1>3. /\ Marks1 \in Seq(D!Step) /\ Len(Marks1) = 1 /\ Marks1 # <<>>
      /\ Head(Marks1) = Mark /\ Tail(Marks1) = Marks0
  <2>1. Len(Marks1) = 1 + Len(Marks0)
    BY <1>1, <1>2 DEF Marks1
  <2>2. Len(Marks1) = 1
    BY <2>1, <1>1
  <2>3. QED
    BY <2>2, <1>1, <1>2 DEF Marks1
<1>4. /\ Marks2 \in Seq(D!Step) /\ Len(Marks2) = 2 /\ Marks2 # <<>>
      /\ Head(Marks2) = Mark /\ Tail(Marks2) = Marks1
  <2>1. Len(Marks2) = 1 + Len(Marks1)
    BY <1>3, <1>2 DEF Marks2
  <2>2. QED
    BY <2>1, <1>3, <1>2 DEF Marks2
<1>5. QED
  BY <1>1, <1>3, <1>4 DEF Marks, Marks0

CallNames == {"set_model_value", "set_model", "display", "monitor_model"}

\* A call and what remains after it.
LEMMA CallSeq ==
    \A v \in DebounceValue, r \in Marks, call \in CallNames :
        /\ Cons(<<call, v>>, r) \in Seq(D!Step) /\ Cons(<<call, v>>, r) # <<>>
        /\ Head(Cons(<<call, v>>, r))[1] = call /\ Head(Cons(<<call, v>>, r))[2] = v
        /\ Tail(Cons(<<call, v>>, r)) = r
<1> TAKE v \in DebounceValue, r \in Marks, call \in CallNames
<1>1. <<call, v>> \in D!Step /\ r \in Seq(D!Step)
  BY StepTypes, MarksSeq DEF D!Step, D!Calls, CallNames
<1> DEFINE s == Cons(<<call, v>>, r)
<1>2. /\ s \in Seq(D!Step) /\ s # <<>>
      /\ Head(s) = <<call, v>> /\ Tail(s) = r
  BY <1>1, ConsSeq
<1>3. Head(s)[1] = call /\ Head(s)[2] = v
  BY <1>2
<1>4. QED
  BY <1>2, <1>3

LEMMA CallLen ==
    \A v \in DebounceValue, r \in Marks, call \in CallNames :
        Len(Cons(<<call, v>>, r)) = 1 + Len(r)
<1> SUFFICES ASSUME NEW v \in DebounceValue, NEW r \in Marks, NEW call \in CallNames
             PROVE  Len(Cons(<<call, v>>, r)) = 1 + Len(r)
  OBVIOUS
<1>1. <<call, v>> \in D!Step /\ r \in Seq(D!Step)
  BY StepTypes, MarksSeq DEF D!Step, D!Calls, CallNames
<1>2. QED
  BY <1>1, ConsAt

\* Which call is under way, by its name.
LEMMA CallUnderWay ==
    ASSUME DebounceInv, todo # <<>>
    PROVE  /\ Head(todo)[1] = "not_first_time" => Returning /\ todo \in {Marks1, Marks2}
           /\ Head(todo)[1] # "not_first_time" =>
                  \E v \in DebounceValue, r \in Marks :
                      /\ InCall(v, r) /\ Head(todo)[2] = v /\ Tail(todo) = r
                      /\ Head(todo)[1] \in CallNames
<1>1. CASE Returning
  <2>1. todo \in {Marks1, Marks2}
    BY <1>1, MarksSeq DEF Returning, Marks
  <2>2. Head(todo)[1] = "not_first_time"
    BY <2>1, MarksSeq DEF Mark
  <2>3. QED
    BY <1>1, <2>1, <2>2
<1>2. ASSUME NEW v \in DebounceValue, NEW r \in Marks, InCall(v, r)
      PROVE  /\ InCall(v, r) /\ Head(todo)[2] = v /\ Tail(todo) = r
             /\ Head(todo)[1] \in CallNames
  <2>1. PICK call \in CallNames : todo = Cons(<<call, v>>, r)
    BY <1>2 DEF InCall, CallNames
  <2>2. Head(todo)[1] = call /\ Head(todo)[2] = v /\ Tail(todo) = r
    BY <2>1, CallSeq
  <2>3. QED
    BY <1>2, <2>1, <2>2
<1>3. CASE \E v \in DebounceValue, r \in Marks : InCall(v, r)
  BY <1>2, <1>3 DEF CallNames
<1>4. QED
  BY <1>1, <1>3 DEF DebounceInv

\* The first name says which disjunct of InCall it is.
LEMMA CallNamed ==
    ASSUME NEW v \in DebounceValue, NEW r \in Marks, InCall(v, r)
    PROVE  /\ Head(todo)[1] = "set_model_value" => Edited(v, r) \/ FedBack(v, r)
           /\ Head(todo)[1] = "set_model" => Sending(v, r)
           /\ Head(todo)[1] = "display" => Showing(v, r)
           /\ Head(todo)[1] = "monitor_model" => Changing(v, r)
<1>1. \A call \in CallNames : todo = Cons(<<call, v>>, r) => Head(todo)[1] = call
  BY CallSeq
<1>2. "set_model_value" \in CallNames /\ "set_model" \in CallNames
      /\ "display" \in CallNames /\ "monitor_model" \in CallNames
  BY DEF CallNames
<1>3. CASE todo = Cons(<<"set_model_value", v>>, r) /\ (Edited(v, r) \/ FedBack(v, r))
  BY <1>1, <1>2, <1>3
<1>4. CASE todo = Cons(<<"set_model", v>>, r) /\ Sending(v, r)
  BY <1>1, <1>2, <1>4
<1>5. CASE todo = Cons(<<"display", v>>, r) /\ Showing(v, r)
  BY <1>1, <1>2, <1>5
<1>6. CASE todo = Cons(<<"monitor_model", v>>, r) /\ Changing(v, r)
  BY <1>1, <1>2, <1>6
<1>7. QED
  BY <1>3, <1>4, <1>5, <1>6 DEF InCall

\* What one step leaves to be done.
LEMMA ThenSteps ==
    ASSUME NEW r \in Marks
    PROVE  /\ <<>> \o r = r
           /\ \A s \in D!Step : <<s>> \o r = Cons(s, r)
           /\ \A s \in D!Step : <<s, Mark>> \o r = Cons(s, Cons(Mark, r))
<1>1. r \in Seq(D!Step) /\ Mark \in D!Step
  BY MarksSeq, StepTypes
<1>2. QED
  BY <1>1, ConcatEmptySeq, ConsTwo DEF Cons

\* The phase that the innermost call being set_model_value(v) leaves.
LEMMA SetModelValueKeeps ==
    ASSUME DebounceInv, D!set_model_value
    PROVE  DebounceInv'
<1>1. PICK v \in DebounceValue, r \in Marks :
        InCall(v, r) /\ Head(todo)[1] = "set_model_value" /\ Head(todo)[2] = v /\ Tail(todo) = r
  BY CallUnderWay DEF D!set_model_value, D!Now
<1>2. Edited(v, r) \/ FedBack(v, r)
  BY <1>1, CallNamed
<1>3. /\ cell' = cell /\ control' = control /\ first_time_m' = first_time_m
      /\ asked' = asked /\ type_2_debounce_m' = FALSE
  BY DEF D!set_model_value
<1>4. CASE type_2_debounce_m /\ ~first_time_m
  <2>1. todo' = r /\ type_1_debounce_m' = type_1_debounce_m
    BY <1>1, <1>4, ThenSteps DEF D!set_model_value, D!Then
  <2>2. DebounceTypes'
    BY <1>3, <2>1, MarksSeq DEF DebounceInv, DebounceTypes
  <2>3. Returning'
    <3>1. CASE Edited(v, r)
      BY <1>3, <1>4, <2>1, <3>1, MarksSeq, DebounceConstants DEF Edited, Returning
    <3>2. CASE FedBack(v, r)
      BY <1>3, <2>1, <3>2, MarksSeq DEF FedBack, Returning
    <3>3. QED
      BY <1>2, <3>1, <3>2
  <2>4. QED
    BY <2>2, <2>3 DEF DebounceInv
<1>5. CASE ~(type_2_debounce_m /\ ~first_time_m)
  <2> DEFINE q == Cons(Mark, r)
  <2>1. /\ type_1_debounce_m' = v
        /\ todo' = <<<<"set_model", v>>, Mark>> \o r
    BY <1>1, <1>5 DEF D!set_model_value, D!Then, D!Argument, Mark
  <2>2. todo' = Cons(<<"set_model", v>>, q)
    BY <2>1, ThenSteps, StepTypes
  <2>3. q \in Marks /\ q # Marks0 /\ (q = Marks2 => FedBack(v, r) /\ first_time_m)
    <3>1. CASE Edited(v, r)
      <4>1. q = Marks1
        BY <3>1 DEF Edited, Marks1
      <4>2. QED
        BY <4>1, MarksSeq DEF Marks
    <3>2. CASE FedBack(v, r)
      <4>1. first_time_m
        BY <1>5, <3>2 DEF FedBack, DebounceInv, DebounceTypes
      <4>2. q \in {Marks1, Marks2}
        BY <3>2 DEF FedBack, Marks, Marks1, Marks2
      <4>3. QED
        BY <3>2, <4>1, <4>2, MarksSeq DEF Marks
    <3>3. QED
      BY <1>2, <3>1, <3>2
  <2> HIDE DEF q
  <2>4. DebounceTypes'
    <3>1. todo' \in Seq(D!Step)
      BY <2>2, <2>3, CallSeq DEF CallNames
    <3>2. QED
      BY <1>3, <2>1, <3>1 DEF DebounceInv, DebounceTypes
  <2>5. Sending(v, q)'
    BY <1>2, <1>3, <2>1, <2>3 DEF Sending, Edited, FedBack
  <2>6. QED
    BY <2>2, <2>3, <2>4, <2>5 DEF DebounceInv, InCall
<1>6. QED
  BY <1>4, <1>5

\* What an action leaves that changes no more than it says.
LEMMA NotFirstTimeKeeps ==
    ASSUME DebounceInv, D!not_first_time
    PROVE  DebounceInv'
<1>1. Returning /\ todo \in {Marks1, Marks2}
  BY CallUnderWay DEF D!not_first_time, D!Now
<1>2. /\ todo' = Tail(todo) /\ first_time_m' = FALSE
      /\ UNCHANGED <<cell, control, type_1_debounce_m, type_2_debounce_m, asked>>
  <2>1. Tail(todo) \in Marks
    BY <1>1, MarksSeq DEF Marks
  <2>2. QED
    BY <2>1, ThenSteps DEF D!not_first_time, D!Then
<1>3. todo' \in {Marks0, Marks1}
  BY <1>1, <1>2, MarksSeq
<1>4. todo' \in Marks /\ todo' # Marks2 /\ todo' \in Seq(D!Step)
  BY <1>3, MarksSeq DEF Marks
<1>5. DebounceTypes'
  BY <1>2, <1>4 DEF DebounceInv, DebounceTypes
<1>6. Returning'
  BY <1>1, <1>2, <1>4 DEF Returning
<1>7. QED
  BY <1>5, <1>6 DEF DebounceInv

LEMMA DisplayKeeps ==
    ASSUME DebounceInv, D!display
    PROVE  DebounceInv'
<1>1. PICK v \in DebounceValue, r \in Marks :
        InCall(v, r) /\ Head(todo)[1] = "display" /\ Head(todo)[2] = v /\ Tail(todo) = r
  BY CallUnderWay DEF D!display, D!Now
<1>2. Showing(v, r)
  BY <1>1, CallNamed
<1>3. /\ cell' = cell /\ control' = control /\ first_time_m' = first_time_m /\ asked' = asked
  BY DEF D!display, D!debounce_vars
<1>4. CASE v = type_1_debounce_m
  <2>1. /\ todo' = r /\ type_1_debounce_m' = type_1_debounce_m
        /\ type_2_debounce_m' = type_2_debounce_m
    BY <1>1, <1>4, ThenSteps DEF D!display, D!Then, D!Argument, D!debounce_vars
  <2>2. DebounceTypes'
    BY <1>3, <2>1, MarksSeq DEF DebounceInv, DebounceTypes
  <2>3. Returning'
    BY <1>2, <1>3, <1>4, <2>1 DEF Showing, Returning
  <2>4. QED
    BY <2>2, <2>3 DEF DebounceInv
<1>5. CASE v # type_1_debounce_m
  <2>1. /\ type_1_debounce_m' = v /\ type_2_debounce_m' = TRUE
        /\ todo' = Cons(<<"monitor_model", v>>, r)
    BY <1>1, <1>5, ThenSteps, StepTypes DEF D!display, D!Then, D!Argument
  <2>2. Changing(v, r)'
    BY <1>2, <1>3, <1>5, <2>1 DEF Showing, Changing
  <2>3. DebounceTypes'
    <3>1. todo' \in Seq(D!Step)
      BY <2>1, CallSeq DEF CallNames
    <3>2. QED
      BY <1>3, <2>1, <3>1 DEF DebounceInv, DebounceTypes
  <2>4. QED
    BY <2>1, <2>2, <2>3 DEF DebounceInv, InCall
<1>6. QED
  BY <1>4, <1>5

LEMMA SetModelKeeps ==
    ASSUME DebounceInv, D!set_model
    PROVE  DebounceInv'
<1>1. PICK v \in DebounceValue, r \in Marks :
        InCall(v, r) /\ Head(todo)[1] = "set_model" /\ Head(todo)[2] = v /\ Tail(todo) = r
  BY CallUnderWay DEF D!set_model, D!Now
<1>2. Sending(v, r)
  BY <1>1, CallNamed
<1>3. Accept[v] \in DebounceValue /\ Accept[Accept[v]] = Accept[v]
  BY DebounceConstants
<1>4. /\ control' = control /\ asked' = asked /\ type_1_debounce_m' = type_1_debounce_m
      /\ type_2_debounce_m' = type_2_debounce_m /\ first_time_m' = first_time_m
      /\ cell' = Accept[v]
      /\ todo' = Cons(<<"display", Accept[v]>>, r)
  BY <1>1, <1>3, ThenSteps, StepTypes DEF D!set_model, D!Then, D!Argument, D!debounce_vars
<1>5. Showing(Accept[v], r)'
  BY <1>2, <1>3, <1>4 DEF Sending, Showing
<1>6. DebounceTypes'
  <2>1. todo' \in Seq(D!Step)
    BY <1>3, <1>4, CallSeq DEF CallNames
  <2>2. QED
    BY <1>3, <1>4, <2>1 DEF DebounceInv, DebounceTypes
<1>7. QED
  BY <1>3, <1>4, <1>5, <1>6 DEF DebounceInv, InCall

LEMMA MonitorModelKeeps ==
    ASSUME DebounceInv, D!monitor_model
    PROVE  DebounceInv'
<1>1. PICK v \in DebounceValue, r \in Marks :
        InCall(v, r) /\ Head(todo)[1] = "monitor_model" /\ Head(todo)[2] = v /\ Tail(todo) = r
  BY CallUnderWay DEF D!monitor_model, D!Now
<1>2. Changing(v, r)
  BY <1>1, CallNamed
<1>3. /\ cell' = cell /\ asked' = asked /\ type_1_debounce_m' = type_1_debounce_m
      /\ type_2_debounce_m' = type_2_debounce_m /\ first_time_m' = first_time_m
      /\ control' = v
  BY <1>1 DEF D!monitor_model, D!Argument, D!debounce_vars
<1>4. CASE Feedback
  <2>1. todo' = Cons(<<"set_model_value", v>>, r)
    BY <1>1, <1>4, ThenSteps, StepTypes DEF D!monitor_model, D!Then, D!Argument
  <2>2. FedBack(v, r)'
    BY <1>2, <1>3, <1>4 DEF Changing, FedBack
  <2>3. DebounceTypes'
    <3>1. todo' \in Seq(D!Step)
      BY <2>1, CallSeq DEF CallNames
    <3>2. QED
      BY <1>3, <3>1 DEF DebounceInv, DebounceTypes
  <2>4. QED
    BY <2>1, <2>2, <2>3 DEF DebounceInv, InCall
<1>5. CASE ~Feedback
  <2>1. todo' = r
    BY <1>1, <1>5, ThenSteps DEF D!monitor_model, D!Then
  <2>2. DebounceTypes'
    BY <1>3, <2>1, MarksSeq DEF DebounceInv, DebounceTypes
  <2>3. Returning'
    BY <1>2, <1>5, <2>1 DEF Changing, Returning
  <2>4. QED
    BY <2>2, <2>3 DEF DebounceInv
<1>6. QED
  BY <1>4, <1>5, DebounceConstants

LEMMA OneStepSeq == \A s \in D!Step : <<s>> = Cons(s, Marks0)
<1>1. \A s \in D!Step : <<s>> \in Seq(D!Step)
  OBVIOUS
<1>2. QED
  BY <1>1, ConcatEmptySeq DEF Cons, Marks0

LEMMA ChangeKeeps ==
    ASSUME DebounceInv, NEW v \in DebounceValue, D!user_edit(v) \/ D!third_party(v)
    PROVE  DebounceInv'
<1> todo = <<>>
  BY DEF D!user_edit, D!third_party, D!Settled
<1>1. Returning
  BY CallSeq DEF DebounceInv, InCall, CallNames
<1>2. Accept[v] \in DebounceValue /\ Accept[Accept[v]] = Accept[v]
  BY DebounceConstants
<1>3. \A s \in D!Step : <<s>> = Cons(s, Marks0)
  BY OneStepSeq
<1>4. Marks0 \in Marks /\ Marks0 # Marks1 /\ Marks0 # Marks2
  BY MarksSeq DEF Marks
<1>5. CASE D!user_edit(v)
  <2>1. /\ control' = v /\ asked' = Accept[v] /\ todo' = Cons(<<"set_model_value", v>>, Marks0)
        /\ cell' = cell /\ type_1_debounce_m' = type_1_debounce_m
        /\ type_2_debounce_m' = type_2_debounce_m /\ first_time_m' = first_time_m
    BY <1>3, <1>5, StepTypes DEF D!user_edit, D!debounce_vars
  <2>2. Edited(v, Marks0)'
    BY <1>1, <1>4, <2>1 DEF Returning, Edited
  <2>3. todo' \in Seq(D!Step)
    BY <1>4, <2>1, CallSeq DEF CallNames
  <2>4. DebounceTypes'
    BY <1>2, <2>1, <2>3 DEF DebounceInv, DebounceTypes
  <2>5. QED
    BY <1>4, <2>1, <2>2, <2>4 DEF DebounceInv, InCall
<1>6. CASE D!third_party(v)
  <2>1. /\ cell' = Accept[v] /\ asked' = Accept[v]
        /\ todo' = Cons(<<"display", Accept[v]>>, Marks0)
        /\ control' = control /\ type_1_debounce_m' = type_1_debounce_m
        /\ type_2_debounce_m' = type_2_debounce_m /\ first_time_m' = first_time_m
    BY <1>2, <1>3, <1>6, StepTypes DEF D!third_party, D!debounce_vars
  <2>2. Showing(Accept[v], Marks0)'
    BY <1>1, <1>2, <1>4, <2>1 DEF Returning, Showing
  <2>3. todo' \in Seq(D!Step)
    BY <1>2, <1>4, <2>1, CallSeq DEF CallNames
  <2>4. DebounceTypes'
    BY <1>2, <2>1, <2>3 DEF DebounceInv, DebounceTypes
  <2>5. QED
    BY <1>2, <1>4, <2>1, <2>2, <2>4 DEF DebounceInv, InCall
<1>7. QED
  BY <1>5, <1>6

LEMMA DebounceStep ==
    ASSUME DebounceInv, D!Next
    PROVE  DebounceInv'
BY ChangeKeeps, SetModelValueKeeps, NotFirstTimeKeeps, DisplayKeeps, SetModelKeeps,
   MonitorModelKeeps DEF D!Next

LEMMA DebounceUnchanged ==
    ASSUME DebounceInv, UNCHANGED debounce_vars
    PROVE  DebounceInv'
<1>1. DebounceTypes' /\ (Returning => Returning')
      /\ \A v, r : InCall(v, r) => InCall(v, r)'
  BY DEF DebounceInv, DebounceTypes, Returning, InCall, Edited, FedBack, Sending, Showing,
         Changing, debounce_vars
<1>2. QED
  BY <1>1 DEF DebounceInv

LEMMA DebounceStart ==
    ASSUME Init
    PROVE  DebounceInv
<1>1. CASE D!Init
  <2>1. cell \in DebounceValue /\ Accept[cell] = cell
    BY <1>1, DebounceConstants DEF D!Init
  <2>2. Marks0 \in Marks /\ Marks0 # Marks1 /\ Marks0 # Marks2
    BY MarksSeq DEF Marks
  <2>3. todo = Cons(<<"display", cell>>, Marks0)
    BY <1>1, <2>1, OneStepSeq, StepTypes DEF D!Init
  <2>4. Showing(cell, Marks0)
    BY <1>1, <2>1, <2>2 DEF D!Init, Showing
  <2>5. todo \in Seq(D!Step)
    BY <2>1, <2>2, <2>3, CallSeq DEF CallNames
  <2>6. DebounceTypes
    BY <1>1, <2>1, <2>5, DebounceConstants DEF D!Init, DebounceTypes
  <2>7. QED
    BY <2>1, <2>2, <2>3, <2>4, <2>6 DEF DebounceInv, InCall
<1>2. CASE DebounceIdle
  <2>1. todo \in Seq(D!Step) /\ todo \in Marks /\ todo # Marks2
    BY <1>2, MarksSeq DEF DebounceIdle, Marks
  <2>2. DebounceTypes
    BY <1>2, <2>1, DebounceConstants DEF DebounceIdle, DebounceTypes
  <2>3. Returning
    BY <1>2, <2>1 DEF DebounceIdle, Returning
  <2>4. QED
    BY <2>2, <2>3 DEF DebounceInv
<1>3. QED
  BY <1>1, <1>2 DEF Init

LEMMA DebounceInvariance == Spec => []DebounceInv
<1>1. Init => DebounceInv
  BY DebounceStart
<1>2. DebounceInv /\ [Next]_all_vars => DebounceInv'
  <2> SUFFICES ASSUME DebounceInv, [Next]_all_vars
               PROVE  DebounceInv'
    OBVIOUS
  <2>1. D!Next \/ UNCHANGED debounce_vars
    BY DEF Next, all_vars
  <2>2. QED
    BY <2>1, DebounceStep, DebounceUnchanged
<1>3. QED
  BY <1>1, <1>2, PTL DEF Spec, all_vars

\* debounce_t: set_model_value and display never nest deeper than the one round that
\* breaks the loop, whatever the values, what the model makes of them, and whether
\* the control calls back.
THEOREM LoopsAlwaysBroken == Spec => []LoopsBroken
<1>1. DebounceInv => LoopsBroken
  <2> SUFFICES ASSUME DebounceInv
               PROVE  LoopsBroken
    OBVIOUS
  <2>1. \A r \in Marks : Len(r) \in 0..2 /\ (r # Marks2 => Len(r) \in 0..1)
    <3>1. /\ Len(Marks0) \in 0..1 /\ Len(Marks1) \in 0..1 /\ Len(Marks2) \in 0..2
      BY MarksSeq
    <3>2. QED
      BY <3>1 DEF Marks
  <2>2. Len(todo) \in 0..3 /\ (~first_time_m => Len(todo) \in 0..2)
    <3>1. CASE Returning
      BY <2>1, <3>1 DEF Returning
    <3>2. CASE \E v \in DebounceValue, r \in Marks : InCall(v, r)
      <4>1. PICK v \in DebounceValue, r \in Marks : InCall(v, r)
        BY <3>2
      <4>2. Len(todo) = 1 + Len(r)
        BY <4>1, CallLen DEF InCall, CallNames
      <4>3. ~first_time_m => r # Marks2
        BY <4>1, MarksSeq DEF InCall, Edited, FedBack, Sending, Showing, Changing
      <4>4. Len(r) \in 0..2 /\ (~first_time_m => Len(r) \in 0..1)
        BY <2>1, <4>3
      <4>5. \A n \in 0..2 : 1 + n \in 0..3 /\ (n \in 0..1 => 1 + n \in 0..2)
        OBVIOUS
      <4>6. QED
        BY <4>2, <4>4, <4>5
    <3>3. QED
      BY <3>1, <3>2 DEF DebounceInv
  <2>3. CASE first_time_m
    <3>1. first_time_m = TRUE
      BY <2>3 DEF DebounceInv, DebounceTypes
    <3>2. (IF first_time_m THEN 3 ELSE 2) = 3
      BY <3>1
    <3>3. \A n \in 0..3 : n <= 3
      OBVIOUS
    <3>4. Len(todo) <= 3
      BY <2>2, <3>3
    <3>5. QED
      BY <3>2, <3>4 DEF LoopsBroken, D!LoopsBroken
  <2>4. CASE ~first_time_m
    BY <2>2, <2>4 DEF LoopsBroken, D!LoopsBroken
  <2>5. QED
    BY <2>3, <2>4
<1>2. QED
  BY <1>1, DebounceInvariance, PTL

\* debounce_t: where the control calls back, nothing is lost in breaking the loops:
\* when the calls have come back, model and control have what was asked for last.
THEOREM AlwaysAgreeWhenSettled == Feedback => (Spec => []AgreeWhenSettled)
<1> SUFFICES ASSUME Feedback
             PROVE  Spec => []AgreeWhenSettled
  OBVIOUS
<1>1. DebounceInv => AgreeWhenSettled
  <2> SUFFICES ASSUME DebounceInv, todo = <<>>
               PROVE  cell = asked /\ control = cell
    BY DEF AgreeWhenSettled, D!AgreeWhenSettled, D!Settled
  <2>1. Returning
    BY CallSeq DEF DebounceInv, InCall, CallNames
  <2>2. QED
    BY <2>1 DEF Returning
<1>2. QED
  BY <1>1, DebounceInvariance, PTL

------------------------------------------------------------------------------
(* command_system_t: its invariant *)

Heard == {untold, TRUE, FALSE}
Frame == [name : Name, enabled : BOOLEAN, rest : Seq(Monitor)]

CommandTypes ==
    /\ command_map_m \subseteq Name
    /\ enabled_commands \in [Name -> BOOLEAN]
    /\ callbacks_m \in [Name -> Seq(Monitor)]
    /\ heard \in [Monitor -> Heard]
    /\ calls \in Seq(Frame)

MonitorsOf(n) == C!ToSet(callbacks_m[n])
Frames == C!ToSet(calls)

\* A monitor listens to one command, which is there; one that listens to none has
\* heard nothing.
MonitorsApart ==
    /\ \A n \in Name \ command_map_m : MonitorsOf(n) = {}
    /\ \A n1, n2 \in Name, m \in Monitor : m \in MonitorsOf(n1) /\ m \in MonitorsOf(n2) => n1 = n2
    /\ \A m \in Monitor : (\A n \in Name : m \notin MonitorsOf(n)) => heard[m] = untold

\* A notification under way calls monitors of its command, with the value of now
\* unless the command was enabled again meanwhile.
FramesCurrent ==
    \A f \in Frames :
        /\ f.name \in command_map_m
        /\ C!ToSet(f.rest) \subseteq MonitorsOf(f.name)
        /\ f.name \notin crossed /\ f.rest # <<>> => f.enabled = enabled_commands[f.name]

\* A monitor that heard something else will be called.
HeardOrDue ==
    \A n \in Name \ crossed : \A m \in MonitorsOf(n) :
        \/ heard[m] \in {untold, enabled_commands[n]}
        \/ \E f \in Frames : f.name = n /\ m \in C!ToSet(f.rest)

CommandInv == CommandTypes /\ MonitorsApart /\ FramesCurrent /\ HeardOrDue

------------------------------------------------------------------------------
(* command_system_t: the steps *)

LEMMA ElementsSame == \A s : C!ToSet(s) = ToSet(s)
BY DEF C!ToSet, ToSet

LEMMA NoElements == C!ToSet(<<>>) = {}
<1>1. <<>> \in Seq(Name)
  OBVIOUS
<1>2. QED
  BY <1>1, ElementsSame, ToSetOf

\* The innermost call and those around it.
LEMMA Innermost ==
    ASSUME CommandTypes, calls # <<>>
    PROVE  /\ Head(calls) \in Frame /\ Tail(calls) \in Seq(Frame)
           /\ Frames = {Head(calls)} \cup C!ToSet(Tail(calls))
<1>1. calls \in Seq(Frame)
  BY DEF CommandTypes
<1>2. /\ Head(calls) \in Frame /\ Tail(calls) \in Seq(Frame)
      /\ calls = Cons(Head(calls), Tail(calls))
  BY <1>1, HeadTailCons
<1>3. ToSet(Cons(Head(calls), Tail(calls))) = {Head(calls)} \cup ToSet(Tail(calls))
  BY <1>2, ConsToSet
<1>4. ToSet(calls) = {Head(calls)} \cup ToSet(Tail(calls))
  BY <1>2, <1>3
<1>5. QED
  BY <1>2, <1>4, ElementsSame DEF Frames

LEMMA Called ==
    ASSUME NEW f \in Frame, NEW s \in Seq(Frame)
    PROVE  <<f>> \o s \in Seq(Frame) /\ C!ToSet(<<f>> \o s) = {f} \cup C!ToSet(s)
<1>1. Cons(f, s) \in Seq(Frame) /\ ToSet(Cons(f, s)) = {f} \cup ToSet(s)
  BY ConsAt, ConsToSet
<1>2. QED
  BY <1>1, ElementsSame DEF Cons

LEMMA FrameTypes ==
    ASSUME CommandTypes, NEW f \in Frames
    PROVE  f \in Frame
BY ElementsSame, ToSetOf DEF CommandTypes, Frames

LEMMA MonitorTypes ==
    ASSUME CommandTypes, NEW n \in Name
    PROVE  callbacks_m[n] \in Seq(Monitor) /\ MonitorsOf(n) \subseteq Monitor
BY ElementsSame, ToSetOf DEF CommandTypes, MonitorsOf

LEMMA InsertCommandKeeps ==
    ASSUME CommandInv, NEW n \in Name, C!insert_command(n)
    PROVE  CommandInv'
<1>1. /\ n \notin command_map_m /\ command_map_m' = command_map_m \cup {n}
      /\ enabled_commands' = [enabled_commands EXCEPT ![n] = FALSE]
      /\ UNCHANGED <<callbacks_m, heard, calls, crossed>>
  BY DEF C!insert_command
<1>2. CommandTypes'
  BY <1>1 DEF CommandInv, CommandTypes
<1>3. \A k \in Name : k # n => enabled_commands'[k] = enabled_commands[k]
  BY <1>1 DEF CommandInv, CommandTypes
<1>4. Frames' = Frames /\ \A k : MonitorsOf(k)' = MonitorsOf(k)
  BY <1>1 DEF Frames, MonitorsOf
<1>5. MonitorsApart'
  BY <1>1, <1>4 DEF CommandInv, MonitorsApart
<1>6. \A f \in Frames : f.name \in Name /\ f.name # n
  BY <1>1, FrameTypes DEF CommandInv, FramesCurrent, Frame
<1>7. FramesCurrent'
  BY <1>1, <1>3, <1>4, <1>6 DEF CommandInv, FramesCurrent
<1>8. MonitorsOf(n) = {}
  BY <1>1 DEF CommandInv, MonitorsApart
<1>9. HeardOrDue'
  BY <1>1, <1>3, <1>4, <1>8 DEF CommandInv, HeardOrDue
<1>10. QED
  BY <1>2, <1>5, <1>7, <1>9 DEF CommandInv

LEMMA RemoveCommandKeeps ==
    ASSUME CommandInv, NEW n \in Name, C!remove_command(n)
    PROVE  CommandInv'
<1>1. /\ n \in command_map_m /\ n \notin C!Running
      /\ command_map_m' = command_map_m \ {n}
      /\ heard' = [m \in Monitor |-> IF m \in MonitorsOf(n) THEN untold ELSE heard[m]]
      /\ callbacks_m' = [callbacks_m EXCEPT ![n] = <<>>]
      /\ crossed' = crossed \ {n}
      /\ UNCHANGED <<enabled_commands, calls>>
  BY DEF C!remove_command, MonitorsOf
<1>2. /\ callbacks_m'[n] = <<>> /\ callbacks_m' \in [Name -> Seq(Monitor)]
      /\ \A k \in Name : k # n => callbacks_m'[k] = callbacks_m[k]
  BY <1>1 DEF CommandInv, CommandTypes
<1>3. CommandTypes'
  BY <1>1, <1>2 DEF CommandInv, CommandTypes, Heard
<1>4. /\ Frames' = Frames /\ MonitorsOf(n)' = {}
      /\ \A k \in Name : k # n => MonitorsOf(k)' = MonitorsOf(k)
  BY <1>1, <1>2, NoElements DEF Frames, MonitorsOf
<1>5. \A f \in Frames : f.name \in Name /\ f.name # n
  <2> SUFFICES ASSUME NEW f \in Frames
               PROVE  f.name \in Name /\ f.name # n
    OBVIOUS
  <2>1. f \in Frame
    BY FrameTypes DEF CommandInv
  <2>2. PICK i \in DOMAIN calls : f = calls[i]
    BY DEF Frames, C!ToSet
  <2>3. f.name \in C!Running
    BY <2>2 DEF C!Running
  <2>4. QED
    BY <1>1, <2>1, <2>3 DEF Frame
<1>6. \A k \in Name : k # n => \A m \in MonitorsOf(k) : heard'[m] = heard[m]
  BY <1>1, MonitorTypes DEF CommandInv, MonitorsApart
<1>7. MonitorsApart'
  <2>1. \A k \in Name \ command_map_m' : MonitorsOf(k)' = {}
    BY <1>1, <1>4 DEF CommandInv, MonitorsApart
  <2>2. \A n1, n2 \in Name, m \in Monitor :
            m \in MonitorsOf(n1)' /\ m \in MonitorsOf(n2)' => n1 = n2
    BY <1>4 DEF CommandInv, MonitorsApart
  <2>3. ASSUME NEW m \in Monitor, \A k \in Name : m \notin MonitorsOf(k)'
        PROVE  heard'[m] = untold
    BY <1>1, <1>4, <2>3 DEF CommandInv, MonitorsApart
  <2>4. QED
    BY <2>1, <2>2, <2>3 DEF MonitorsApart
<1>8. FramesCurrent'
  BY <1>1, <1>4, <1>5 DEF CommandInv, FramesCurrent
<1>9. HeardOrDue'
  BY <1>1, <1>4, <1>6 DEF CommandInv, HeardOrDue
<1>10. QED
  BY <1>3, <1>7, <1>8, <1>9 DEF CommandInv

LEMMA DoCommandKeeps ==
    ASSUME CommandInv, NEW n \in Name, C!do_command(n)
    PROVE  CommandInv'
<1>1. PICK f : f = [name |-> n, enabled |-> TRUE, rest |-> <<>>]
  OBVIOUS
<1>2. f \in Frame /\ f.name = n /\ f.rest = <<>>
  BY <1>1 DEF Frame
<1>3. /\ n \in command_map_m /\ calls' = <<f>> \o calls
      /\ UNCHANGED <<command_map_m, enabled_commands, callbacks_m, heard, crossed>>
  BY <1>1 DEF C!do_command
<1>4. calls' \in Seq(Frame) /\ Frames' = {f} \cup Frames
  BY <1>2, <1>3, Called DEF CommandInv, CommandTypes, Frames
<1>5. \A k : MonitorsOf(k)' = MonitorsOf(k)
  BY <1>3 DEF MonitorsOf
<1>6. CommandTypes' /\ MonitorsApart'
  BY <1>3, <1>4, <1>5 DEF CommandInv, CommandTypes, MonitorsApart
<1>7. FramesCurrent'
  BY <1>2, <1>3, <1>4, <1>5, NoElements DEF CommandInv, FramesCurrent
<1>8. HeardOrDue'
  BY <1>3, <1>4, <1>5 DEF CommandInv, HeardOrDue
<1>9. QED
  BY <1>6, <1>7, <1>8 DEF CommandInv

LEMMA CommandReturnsKeeps ==
    ASSUME CommandInv, C!returns
    PROVE  CommandInv'
<1>1. /\ calls # <<>> /\ Head(calls).rest = <<>> /\ calls' = Tail(calls)
      /\ UNCHANGED <<command_map_m, enabled_commands, callbacks_m, heard, crossed>>
  BY DEF C!returns
<1>2. calls' \in Seq(Frame) /\ Frames = {Head(calls)} \cup Frames'
  BY <1>1, Innermost DEF CommandInv, Frames
<1>3. \A k : MonitorsOf(k)' = MonitorsOf(k)
  BY <1>1 DEF MonitorsOf
<1>4. CommandTypes' /\ MonitorsApart'
  BY <1>1, <1>2, <1>3 DEF CommandInv, CommandTypes, MonitorsApart
<1>5. FramesCurrent'
  BY <1>1, <1>2, <1>3 DEF CommandInv, FramesCurrent
<1>6. \A f \in Frames : \A m \in C!ToSet(f.rest) : f \in Frames'
  BY <1>1, <1>2, NoElements
<1>7. HeardOrDue'
  BY <1>1, <1>3, <1>6 DEF CommandInv, HeardOrDue
<1>8. QED
  BY <1>4, <1>5, <1>7 DEF CommandInv

\* What an exception leaves of a call is no monitor that is due, but for a command that is
\* excepted.
LEMMA CommandThrowsKeeps ==
    ASSUME CommandInv, C!throws
    PROVE  CommandInv'
<1>1. PICK f : f = Head(calls)
  OBVIOUS
<1>2. /\ calls # <<>> /\ calls' = Tail(calls)
      /\ crossed' = IF f.rest = <<>> THEN crossed ELSE crossed \cup {f.name}
      /\ UNCHANGED <<command_map_m, enabled_commands, callbacks_m, heard>>
  BY <1>1 DEF C!throws
<1>3. calls' \in Seq(Frame) /\ Frames = {f} \cup Frames'
  BY <1>1, <1>2, Innermost DEF CommandInv, Frames
<1>4. \A k : MonitorsOf(k)' = MonitorsOf(k)
  BY <1>2 DEF MonitorsOf
<1>5. CommandTypes' /\ MonitorsApart'
  BY <1>2, <1>3, <1>4 DEF CommandInv, CommandTypes, MonitorsApart
<1>6. crossed \subseteq crossed'
  BY <1>2
<1>7. FramesCurrent'
  BY <1>2, <1>3, <1>4, <1>6 DEF CommandInv, FramesCurrent
<1>8. \A k \in Name \ crossed' : \A g \in Frames : \A m \in C!ToSet(g.rest) :
        g.name = k => g \in Frames'
  BY <1>2, <1>3, NoElements
<1>9. HeardOrDue'
  BY <1>2, <1>4, <1>6, <1>8 DEF CommandInv, HeardOrDue
<1>10. QED
  BY <1>5, <1>7, <1>9 DEF CommandInv

\* Enabling a command makes a call that is due to all of its monitors.
LEMMA EnableCommandKeeps ==
    ASSUME CommandInv, NEW n \in Name, NEW b \in BOOLEAN, C!enable_command(n, b)
    PROVE  CommandInv'
<1>1. PICK f : f = [name |-> n, enabled |-> b, rest |-> callbacks_m[n]]
  OBVIOUS
<1>2. f \in Frame /\ f.name = n /\ f.enabled = b /\ f.rest = callbacks_m[n]
  BY <1>1, MonitorTypes DEF Frame, CommandInv
<1>3. /\ n \in command_map_m /\ calls' = <<f>> \o calls
      /\ enabled_commands' = [enabled_commands EXCEPT ![n] = b]
      /\ crossed' = IF C!Notifying(n) THEN crossed \cup {n} ELSE crossed \ {n}
      /\ UNCHANGED <<command_map_m, callbacks_m, heard>>
  BY <1>1 DEF C!enable_command
<1>4. calls' \in Seq(Frame) /\ Frames' = {f} \cup Frames
  BY <1>2, <1>3, Called DEF CommandInv, CommandTypes, Frames
<1>5. \A k : MonitorsOf(k)' = MonitorsOf(k)
  BY <1>3 DEF MonitorsOf
<1>6. /\ enabled_commands' \in [Name -> BOOLEAN] /\ enabled_commands'[n] = b
      /\ \A k \in Name : k # n => enabled_commands'[k] = enabled_commands[k]
  BY <1>3 DEF CommandInv, CommandTypes
<1>7. CommandTypes' /\ MonitorsApart'
  BY <1>3, <1>4, <1>5, <1>6 DEF CommandInv, CommandTypes, MonitorsApart
<1>8. \A k : k # n => (k \in crossed' <=> k \in crossed)
  BY <1>3
<1>9. n \notin crossed' => \A g \in Frames : g.name = n => g.rest = <<>>
  <2> SUFFICES ASSUME n \notin crossed', NEW g \in Frames, g.name = n
               PROVE  g.rest = <<>>
    OBVIOUS
  <2>1. ~C!Notifying(n)
    BY <1>3
  <2>2. PICK i \in DOMAIN calls : g = calls[i]
    BY DEF Frames, C!ToSet
  <2>3. QED
    BY <2>1, <2>2 DEF C!Notifying
<1>10. FramesCurrent'
  <2> SUFFICES ASSUME NEW g \in Frames'
               PROVE  /\ g.name \in command_map_m'
                      /\ C!ToSet(g.rest) \subseteq MonitorsOf(g.name)'
                      /\ g.name \notin crossed' /\ g.rest # <<>> =>
                             g.enabled = enabled_commands'[g.name]
    BY DEF FramesCurrent
  <2>1. CASE g = f
    BY <1>2, <1>3, <1>5, <1>6, <2>1 DEF MonitorsOf
  <2>2. CASE g \in Frames
    <3>1. g.name \in Name
      BY <2>2, FrameTypes DEF CommandInv, Frame
    <3>2. QED
      BY <1>3, <1>5, <1>6, <1>8, <1>9, <2>2, <3>1 DEF CommandInv, FramesCurrent
  <2>3. QED
    BY <1>4, <2>1, <2>2
<1>11. HeardOrDue'
  <2> SUFFICES ASSUME NEW k \in Name, k \notin crossed', NEW m \in MonitorsOf(k)'
               PROVE  \/ heard'[m] \in {untold, enabled_commands'[k]}
                      \/ \E g \in Frames' : g.name = k /\ m \in C!ToSet(g.rest)
    BY DEF HeardOrDue
  <2>1. CASE k = n
    BY <1>2, <1>4, <1>5, <2>1 DEF MonitorsOf
  <2>2. CASE k # n
    BY <1>3, <1>4, <1>5, <1>6, <1>8, <2>2 DEF CommandInv, HeardOrDue
  <2>3. QED
    BY <2>1, <2>2
<1>12. QED
  BY <1>7, <1>10, <1>11 DEF CommandInv

\* A monitor that is called hears the value of its command, and is due no more in
\* that call.
LEMMA EnabledCallbackKeeps ==
    ASSUME CommandInv, C!enabled_callback
    PROVE  CommandInv'
<1>1. PICK f : f = Head(calls)
  OBVIOUS
<1>2. PICK g : g = [f EXCEPT !.rest = Tail(@)]
  OBVIOUS
<1>3. /\ calls # <<>> /\ f.rest # <<>>
      /\ heard' = [heard EXCEPT ![Head(f.rest)] = f.enabled]
      /\ calls' = <<g>> \o Tail(calls)
      /\ UNCHANGED <<command_map_m, enabled_commands, callbacks_m, crossed>>
  BY <1>1, <1>2 DEF C!enabled_callback
<1>4. PICK others : others = C!ToSet(Tail(calls))
  OBVIOUS
<1>5. f \in Frame /\ Frames = {f} \cup others /\ Tail(calls) \in Seq(Frame)
  BY <1>1, <1>3, <1>4, Innermost DEF CommandInv
<1>6. PICK m \in Monitor, r \in Seq(Monitor) : m = Head(f.rest) /\ r = Tail(f.rest)
  BY <1>3, <1>5, HeadTailCons DEF Frame
<1>7. g \in Frame /\ g.name = f.name /\ g.enabled = f.enabled /\ g.rest = r
  BY <1>2, <1>5, <1>6 DEF Frame
<1>8. C!ToSet(f.rest) = {m} \cup C!ToSet(r)
  <2>1. f.rest \in Seq(Monitor)
    BY <1>5 DEF Frame
  <2>2. f.rest = Cons(m, r)
    BY <1>3, <1>6, <2>1, HeadTailCons
  <2>3. ToSet(f.rest) = {m} \cup ToSet(r)
    BY <2>2, ConsToSet
  <2>4. QED
    BY <2>3, ElementsSame
<1>9. calls' \in Seq(Frame) /\ Frames' = {g} \cup others
  BY <1>3, <1>4, <1>5, <1>7, Called DEF Frames
<1>10. \A k : MonitorsOf(k)' = MonitorsOf(k)
  BY <1>3 DEF MonitorsOf
<1>11. /\ heard' \in [Monitor -> Heard] /\ heard'[m] = f.enabled
       /\ \A k \in Monitor : k # m => heard'[k] = heard[k]
  <2>1. f.enabled \in Heard
    BY <1>5 DEF Frame, Heard
  <2>2. QED
    BY <1>3, <1>6, <2>1 DEF CommandInv, CommandTypes
<1>12. CommandTypes'
  BY <1>3, <1>9, <1>11 DEF CommandInv, CommandTypes
<1>13. f.name \in Name /\ m \in MonitorsOf(f.name)
  BY <1>5, <1>8 DEF CommandInv, FramesCurrent, Frame
<1>14. MonitorsApart'
  BY <1>3, <1>10, <1>11, <1>13 DEF CommandInv, MonitorsApart
<1>15. FramesCurrent'
  BY <1>3, <1>5, <1>7, <1>8, <1>9, <1>10 DEF CommandInv, FramesCurrent
<1>16. HeardOrDue'
  <2> SUFFICES ASSUME NEW k \in Name, k \notin crossed, NEW l \in MonitorsOf(k)
               PROVE  \/ heard'[l] \in {untold, enabled_commands[k]}
                      \/ \E h \in Frames' : h.name = k /\ l \in C!ToSet(h.rest)
    BY <1>3, <1>10 DEF HeardOrDue
  <2>1. CASE l = m
    <3>1. k = f.name
      BY <1>13, <2>1 DEF CommandInv, MonitorsApart
    <3>2. f.enabled = enabled_commands[k]
      BY <1>3, <1>5, <3>1 DEF CommandInv, FramesCurrent
    <3>3. QED
      BY <1>11, <2>1, <3>2
  <2>2. CASE l # m
    <3>1. heard'[l] = heard[l]
      BY <1>11, <2>2, MonitorTypes DEF CommandInv
    <3>2. \A h \in Frames : l \in C!ToSet(h.rest) =>
              \E h2 \in Frames' : h2.name = h.name /\ l \in C!ToSet(h2.rest)
      BY <1>5, <1>7, <1>8, <1>9, <2>2
    <3>3. QED
      BY <3>1, <3>2 DEF CommandInv, HeardOrDue
  <2>3. QED
    BY <2>1, <2>2
<1>17. QED
  BY <1>12, <1>14, <1>15, <1>16 DEF CommandInv

\* A monitor that listened to nothing has heard nothing.
LEMMA MonitorEnabledKeeps ==
    ASSUME CommandInv, NEW n \in Name, NEW m \in Monitor, C!monitor_enabled(n, m)
    PROVE  CommandInv'
<1>1. /\ n \in command_map_m /\ ~C!Listens(m)
      /\ callbacks_m' = [callbacks_m EXCEPT ![n] = Append(callbacks_m[n], m)]
      /\ UNCHANGED <<command_map_m, enabled_commands, heard, calls, crossed>>
  BY DEF C!monitor_enabled
<1>2. callbacks_m[n] \in Seq(Monitor)
  BY MonitorTypes DEF CommandInv
<1>3. /\ Append(callbacks_m[n], m) \in Seq(Monitor)
      /\ ToSet(Append(callbacks_m[n], m)) = ToSet(callbacks_m[n]) \cup {m}
  BY <1>2, AppendToSet
<1>4. /\ callbacks_m' \in [Name -> Seq(Monitor)]
      /\ callbacks_m'[n] = Append(callbacks_m[n], m)
      /\ \A k \in Name : k # n => callbacks_m'[k] = callbacks_m[k]
  BY <1>1, <1>3 DEF CommandInv, CommandTypes
<1>5. /\ MonitorsOf(n)' = MonitorsOf(n) \cup {m}
      /\ \A k \in Name : k # n => MonitorsOf(k)' = MonitorsOf(k)
      /\ Frames' = Frames
  BY <1>1, <1>3, <1>4, ElementsSame DEF MonitorsOf, Frames
<1>6. \A k \in Name : m \notin MonitorsOf(k)
  BY <1>1 DEF C!Listens, MonitorsOf
<1>7. heard[m] = untold
  BY <1>6 DEF CommandInv, MonitorsApart
<1>8. CommandTypes'
  BY <1>1, <1>4 DEF CommandInv, CommandTypes
<1>9. MonitorsApart'
  <2>1. \A k \in Name \ command_map_m' : MonitorsOf(k)' = {}
    BY <1>1, <1>5 DEF CommandInv, MonitorsApart
  <2>2. \A n1, n2 \in Name, l \in Monitor :
            l \in MonitorsOf(n1)' /\ l \in MonitorsOf(n2)' => n1 = n2
    BY <1>5, <1>6 DEF CommandInv, MonitorsApart
  <2>3. \A k \in Name : MonitorsOf(k) \subseteq MonitorsOf(k)'
    BY <1>5
  <2>4. ASSUME NEW l \in Monitor, \A k \in Name : l \notin MonitorsOf(k)'
        PROVE  heard'[l] = untold
    BY <1>1, <2>3, <2>4 DEF CommandInv, MonitorsApart
  <2>5. QED
    BY <2>1, <2>2, <2>4 DEF MonitorsApart
<1>10. FramesCurrent'
  <2>1. \A f \in Frames : f.name \in Name
    BY FrameTypes DEF CommandInv, Frame
  <2>2. \A k \in Name : MonitorsOf(k) \subseteq MonitorsOf(k)'
    BY <1>5
  <2>3. QED
    BY <1>1, <1>5, <2>1, <2>2 DEF CommandInv, FramesCurrent
<1>11. HeardOrDue'
  BY <1>1, <1>5, <1>7 DEF CommandInv, HeardOrDue
<1>12. QED
  BY <1>8, <1>9, <1>10, <1>11 DEF CommandInv

LEMMA CommandStep ==
    ASSUME CommandInv, C!CommandNext
    PROVE  CommandInv'
BY InsertCommandKeeps, RemoveCommandKeeps, DoCommandKeeps, EnableCommandKeeps,
   MonitorEnabledKeeps, EnabledCallbackKeeps, CommandReturnsKeeps, CommandThrowsKeeps
   DEF C!CommandNext

LEMMA CommandUnchanged ==
    ASSUME CommandInv, UNCHANGED command_vars
    PROVE  CommandInv'
BY DEF CommandInv, CommandTypes, MonitorsApart, FramesCurrent, HeardOrDue, MonitorsOf, Frames,
       command_vars

LEMMA CommandStart ==
    ASSUME Init
    PROVE  CommandInv
<1>1. C!NoCommands
  BY DEF Init, C!Init
<1>2. /\ command_map_m = {} /\ crossed = {} /\ calls = <<>>
      /\ enabled_commands = [n \in Name |-> FALSE] /\ callbacks_m = [n \in Name |-> <<>>]
      /\ heard = [m \in Monitor |-> untold]
  BY <1>1 DEF C!NoCommands
<1>3. Frames = {} /\ \A n \in Name : MonitorsOf(n) = {}
  BY <1>2, NoElements DEF Frames, MonitorsOf
<1>4. CommandTypes
  BY <1>2 DEF CommandTypes, Heard
<1>5. MonitorsApart /\ FramesCurrent /\ HeardOrDue
  BY <1>2, <1>3 DEF MonitorsApart, FramesCurrent, HeardOrDue
<1>6. QED
  BY <1>4, <1>5 DEF CommandInv

LEMMA CommandInvariance == Spec => []CommandInv
<1>1. Init => CommandInv
  BY CommandStart
<1>2. CommandInv /\ [Next]_all_vars => CommandInv'
  <2> SUFFICES ASSUME CommandInv, [Next]_all_vars
               PROVE  CommandInv'
    OBVIOUS
  <2>1. C!CommandNext \/ UNCHANGED command_vars
    BY DEF Next, all_vars
  <2>2. QED
    BY <2>1, CommandStep, CommandUnchanged
<1>3. QED
  BY <1>1, <1>2, PTL DEF Spec, all_vars

\* command_system_t: however monitors and commands nest their calls, when all have
\* returned every monitor of a command that was not enabled again under its own
\* notification heard last how the command is.
THEOREM MonitorsAlwaysAgree == Spec => []MonitorsAgree
<1>1. CommandInv => MonitorsAgree
  <2> SUFFICES ASSUME CommandInv, calls = <<>>,
                      NEW n \in command_map_m, n \notin crossed,
                      NEW m \in C!ToSet(callbacks_m[n])
               PROVE  heard[m] \in {untold, enabled_commands[n]}
    BY DEF MonitorsAgree, C!MonitorsAgree
  <2>1. Frames = {}
    BY NoElements DEF Frames
  <2>2. n \in Name /\ m \in MonitorsOf(n)
    BY DEF CommandInv, CommandTypes, MonitorsOf
  <2>3. QED
    BY <2>1, <2>2 DEF CommandInv, HeardOrDue
<1>2. QED
  BY <1>1, CommandInvariance, PTL

------------------------------------------------------------------------------
(* The sentence command system: its invariant *)

SentenceState == {"removed", "untold", "enabled", "disabled"}
Walk == [op : {"sweep", "erase", "remove", "update"}, of : S!Part \cup S!Key, rest : SUBSET S!Key]

SentenceTypes ==
    /\ present \subseteq S!Part /\ unswept \subseteq present
    /\ part_enabled \in [S!Part -> BOOLEAN] /\ meets \in [S!Noun -> BOOLEAN]
    /\ table_m \in [S!entries -> BOOLEAN] /\ S!entries \subseteq S!Key
    /\ notify_table_m \subseteq Sentence
    /\ told \in [S!Key -> SentenceState]
    /\ frames \in Seq(Walk)

\* A sweep or a removal is the client's call; an entry is erased out of a sweep and
\* its monitor cannot call back.
NestedIn(s) ==
    \A i \in 1..Len(s) :
        /\ s[i].op \in {"sweep", "remove"} => i = Len(s)
        /\ s[i].op = "erase" => i = 1 /\ Len(s) = 2 /\ s[2].op = "sweep"

Walks(op) == {f \in ToSet(frames) : f.op = op}
InSweep(k) == \E f \in Walks("sweep") : k \in f.rest
Erasing(k) == \E f \in Walks("erase") : k = f.of
Updating(k) == \E f \in Walks("update") : k \in f.rest
ToldRemoved(k) == \E f \in Walks("remove") : k \in S!equal_range(f.of) \ f.rest

\* What the calls under way still have to do is about entries that are there, and an
\* update under a removal has nothing of what is removed.
WalksTable ==
    /\ \A f \in Walks("update") : f.of \in S!Part /\ f.rest \subseteq S!equal_range(f.of)
    /\ \A f \in Walks("sweep") : \A k \in f.rest : S!PartsOf(k) \subseteq present
    /\ \A f \in Walks("erase") :
           /\ f.of \in S!entries /\ ~S!Compatible(f.of)
           /\ f.of[1] \in notify_table_m => told[f.of] = "removed"
    /\ \A f \in Walks("remove") :
           /\ f.of \in present /\ f.rest \subseteq S!equal_range(f.of)
           /\ \A g \in Walks("update") : g.of # f.of /\ S!column(g.of) = S!column(f.of)

\* An entry's parts are there; it is enabled as they are, or will be updated.
EntriesEnabled ==
    \A k \in S!entries :
        S!PartsOf(k) \subseteq present /\ (table_m[k] = S!AllEnabled(k) \/ Updating(k))

\* There is an entry for the compatible parts, or it will be looked at.
EntriesSwept ==
    \A k \in S!Key : S!PartsOf(k) \subseteq present /\ S!PartsOf(k) \cap unswept = {} =>
        (k \in S!entries <=> S!Compatible(k)) \/ InSweep(k) \/ Erasing(k)

HeardAsTable(k) ==
    told[k] \in {"untold", IF k \in S!entries THEN S!StateOf(table_m[k]) ELSE "removed"}

\* What a monitor heard last is how the entry is, or that it goes if it is about to.
EventsCurrent ==
    \A k \in S!Key :
        /\ k[1] \notin notify_table_m => told[k] = "removed"
        /\ k[1] \in notify_table_m =>
              /\ HeardAsTable(k) \/ Erasing(k) \/ ToldRemoved(k)
              /\ ToldRemoved(k) => told[k] = "removed"

SentencesInv ==
    /\ SentenceTypes /\ NestedIn(frames) /\ WalksTable
    /\ EntriesEnabled /\ EntriesSwept /\ EventsCurrent

------------------------------------------------------------------------------
(* The sentence command system: its keys and its stack of calls *)

LEMMA SentenceConstants ==
    /\ Binary \subseteq Sentence
    /\ Sentence \cap S!Noun = {} /\ Subject \cap DirectObject = {} /\ no_dirobj \notin S!Part
BY CallbacksAssumption DEF S!SentencesAssumption

\* Where the parts of a key stand.
LEMMA KeyParts ==
    ASSUME NEW k \in S!Key
    PROVE  /\ k[1] \in Sentence /\ k[1] \in S!PartsOf(k)
           /\ S!PartsOf(k) \subseteq S!Part
           /\ \A x \in S!PartsOf(k) : x \in Sentence => x = k[1]
           /\ \A x \in S!PartsOf(k) : x \in Subject => x = k[2]
           /\ \A x \in S!PartsOf(k) : x \in DirectObject => x = k[3]
<1>1. /\ k[1] \in Sentence /\ k[2] \in Subject /\ k[3] \in DirectObject \cup {no_dirobj}
  BY SentenceConstants DEF S!Key
<1>2. QED
  BY <1>1, SentenceConstants DEF S!PartsOf, S!Part, S!Noun

\* Two parts of one key stand in two columns.
LEMMA OneOfAColumn ==
    ASSUME NEW k \in S!Key, NEW x \in S!PartsOf(k), NEW y \in S!PartsOf(k),
           S!column(x) = S!column(y)
    PROVE  x = y
<1>1. \A z \in S!Part :
          /\ z \in Sentence \/ z \in Subject \/ z \in DirectObject
          /\ z \in Sentence => S!column(z) = 1
          /\ z \in Subject => S!column(z) = 2
          /\ z \in DirectObject => S!column(z) = 3
  BY SentenceConstants DEF S!column, S!Part, S!Noun
<1>2. x \in S!Part /\ y \in S!Part
  BY KeyParts
<1>3. QED
  BY <1>1, <1>2, KeyParts

LEMMA Columns == \A x \in S!Part : S!column(x) # 0
BY SentenceConstants DEF S!column, S!Part, S!Noun

LEMMA PushSame ==
    ASSUME NEW s \in Seq(Walk), NEW f \in Walk, NestedIn(s), f.op = "update",
           \A g \in ToSet(s) : g.op # "erase"
    PROVE  /\ <<f>> \o s \in Seq(Walk) /\ NestedIn(<<f>> \o s)
           /\ ToSet(<<f>> \o s) = {f} \cup ToSet(s)
<1> DEFINE t == Cons(f, s)
<1>1. /\ t \in Seq(Walk) /\ Len(t) = 1 + Len(s) /\ Len(s) \in Nat
      /\ \A i \in 1..(1 + Len(s)) : t[i] = IF i = 1 THEN f ELSE s[i - 1]
  BY ConsAt
<1>4. ToSet(t) = {f} \cup ToSet(s)
  BY ConsToSet
<1> HIDE DEF t
<1>2. NestedIn(t)
  <2> SUFFICES ASSUME NEW i \in 1..(1 + Len(s))
               PROVE  /\ t[i].op \in {"sweep", "remove"} => i = 1 + Len(s)
                      /\ t[i].op # "erase"
    BY <1>1 DEF NestedIn
  <2>1. CASE i = 1
    BY <1>1, <2>1
  <2>2. CASE i # 1
    <3>1. i - 1 \in 1..Len(s) /\ t[i] = s[i - 1]
      BY <1>1, <2>2
    <3>2. s[i - 1] \in ToSet(s)
      BY <3>1, ToSetOf
    <3>3. s[i - 1].op \in {"sweep", "remove"} => i - 1 = Len(s)
      BY <3>1 DEF NestedIn
    <3>4. i - 1 = Len(s) => i = 1 + Len(s)
      BY <1>1
    <3>5. QED
      BY <3>1, <3>2, <3>3, <3>4
  <2>3. QED
    BY <2>1, <2>2
<1>3. QED
  BY <1>1, <1>2, <1>4 DEF t, Cons

LEMMA HeadSame ==
    ASSUME NEW s \in Seq(Walk), s # <<>>, NEW f \in Walk, NestedIn(s), f.op = Head(s).op
    PROVE  /\ <<f>> \o Tail(s) \in Seq(Walk) /\ NestedIn(<<f>> \o Tail(s))
           /\ ToSet(<<f>> \o Tail(s)) = {f} \cup ToSet(Tail(s))
<1> DEFINE r == Tail(s)
           t == Cons(f, r)
<1>1. /\ r \in Seq(Walk) /\ Head(s) = s[1] /\ Len(s) \in Nat \ {0} /\ Len(r) = Len(s) - 1
      /\ \A i \in 1..Len(r) : r[i] = s[i + 1]
  BY HeadTailProperties, EmptySeq
<1>2. r \in Seq(Walk)
  BY <1>1
<1> HIDE DEF r
<1>3. /\ t \in Seq(Walk) /\ Len(t) = 1 + Len(r)
      /\ \A i \in 1..(1 + Len(r)) : t[i] = IF i = 1 THEN f ELSE r[i - 1]
  BY <1>2, ConsAt
<1>8. ToSet(t) = {f} \cup ToSet(r)
  BY <1>2, ConsToSet
<1> HIDE DEF t
<1>4. Len(t) = Len(s)
  BY <1>1, <1>3
<1>5. \A i \in 1..Len(s) : t[i].op = s[i].op
  <2> SUFFICES ASSUME NEW i \in 1..Len(s)
               PROVE  t[i].op = s[i].op
    OBVIOUS
  <2>1. i \in 1..(1 + Len(r))
    BY <1>1
  <2>2. CASE i = 1
    BY <1>1, <1>3, <2>1, <2>2
  <2>3. CASE i # 1
    <3>1. i - 1 \in 1..Len(r) /\ (i - 1) + 1 = i
      BY <1>1, <2>3
    <3>2. QED
      BY <1>1, <1>3, <2>1, <2>3, <3>1
  <2>4. QED
    BY <2>2, <2>3
<1>6. NestedIn(t)
  <2>1. Len(s) = 2 => 2 \in 1..Len(s)
    BY <1>1
  <2>2. QED
    BY <1>4, <1>5, <2>1 DEF NestedIn
<1>7. QED
  BY <1>3, <1>6, <1>8 DEF t, r, Cons

LEMMA PopSame ==
    ASSUME NEW s \in Seq(Walk), s # <<>>, NestedIn(s)
    PROVE  /\ Head(s) \in Walk /\ Tail(s) \in Seq(Walk) /\ NestedIn(Tail(s))
           /\ ToSet(s) = {Head(s)} \cup ToSet(Tail(s))
           /\ Head(s).op \in {"sweep", "remove"} => Tail(s) = <<>>
           /\ \A f \in ToSet(Tail(s)) : f.op # "erase"
           /\ Head(s).op = "erase" => /\ \A f \in ToSet(Tail(s)) : f.op = "sweep"
                                      /\ Tail(s) # <<>>
<1> DEFINE r == Tail(s)
<1>1. /\ r \in Seq(Walk) /\ Head(s) = s[1] /\ Len(s) \in Nat \ {0} /\ Len(r) = Len(s) - 1
      /\ \A i \in 1..Len(r) : r[i] = s[i + 1]
  BY HeadTailProperties, EmptySeq
<1>2. Head(s) \in Walk /\ s = Cons(Head(s), r)
  BY HeadTailCons
<1> HIDE DEF r
<1>3. ToSet(s) = {Head(s)} \cup ToSet(r)
  BY <1>1, <1>2, ConsToSet
<1>4. ASSUME NEW i \in 1..Len(r)
      PROVE  /\ r[i].op # "erase"
             /\ r[i].op \in {"sweep", "remove"} => i = Len(r)
  <2>1. i + 1 \in 1..Len(s) /\ i + 1 # 1 /\ (i + 1 = Len(s) => i = Len(r))
    BY <1>1
  <2>2. QED
    BY <1>1, <2>1 DEF NestedIn
<1>5. NestedIn(r)
  BY <1>4 DEF NestedIn
<1>6. \A f \in ToSet(r) : \E i \in 1..Len(r) : r[i] = f
  BY <1>1, ToSetOf
<1>7. 1 \in 1..Len(s)
  BY <1>1
<1>8. ASSUME Head(s).op \in {"sweep", "remove"}
      PROVE  r = <<>>
  <2>1. Len(s) = 1
    BY <1>1, <1>7, <1>8 DEF NestedIn
  <2>2. QED
    BY <1>1, <2>1, EmptySeq
<1>9. ASSUME Head(s).op = "erase"
      PROVE  r # <<>> /\ \A f \in ToSet(r) : f.op = "sweep"
  <2>1. Len(s) = 2 /\ s[2].op = "sweep"
    BY <1>1, <1>7, <1>9 DEF NestedIn
  <2>2. Len(r) = 1
    BY <1>1, <2>1
  <2>3. r[1] = s[2]
    BY <1>1, <2>2
  <2>4. 1..Len(r) = {1}
    BY <2>2
  <2>5. r # <<>>
    BY <1>1, <2>2, EmptySeq
  <2>6. QED
    BY <1>6, <2>1, <2>3, <2>4, <2>5
<1>10. \A f \in ToSet(r) : f.op # "erase"
  BY <1>4, <1>6
<1>11. Head(s) \in Walk /\ r \in Seq(Walk)
  BY <1>1, <1>2
<1>12. QED
  BY <1>3, <1>5, <1>8, <1>9, <1>10, <1>11 DEF r

------------------------------------------------------------------------------
(* The sentence command system: the client's steps *)

LEMMA OneWalk ==
    ASSUME NEW f \in Walk, f.op # "erase"
    PROVE  <<f>> \in Seq(Walk) /\ NestedIn(<<f>>) /\ ToSet(<<f>>) = {f}
<1>1. <<f>> \in Seq(Walk) /\ Len(<<f>>) = 1 /\ <<f>>[1] = f
  OBVIOUS
<1>2. 1..Len(<<f>>) = {1}
  BY <1>1
<1>3. NestedIn(<<f>>)
  BY <1>1, <1>2 DEF NestedIn
<1>4. ToSet(<<f>>) = {f}
  <2>1. \A x : x \in ToSet(<<f>>) <=> \E i \in {1} : <<f>>[i] = x
    BY <1>1, <1>2, ToSetOf
  <2>2. QED
    BY <1>1, <2>1
<1>5. QED
  BY <1>1, <1>3, <1>4

LEMMA TwoWalks ==
    ASSUME NEW e \in Walk, NEW f \in Walk, e.op = "erase", f.op = "sweep"
    PROVE  <<e, f>> \in Seq(Walk) /\ NestedIn(<<e, f>>) /\ ToSet(<<e, f>>) = {e, f}
<1>1. /\ <<e, f>> \in Seq(Walk) /\ Len(<<e, f>>) = 2
      /\ <<e, f>>[1] = e /\ <<e, f>>[2] = f
  OBVIOUS
<1>2. 1..Len(<<e, f>>) = {1, 2}
  BY <1>1
<1>3. NestedIn(<<e, f>>)
  BY <1>1, <1>2 DEF NestedIn
<1>4. ToSet(<<e, f>>) = {e, f}
  BY <1>1, <1>2, ToSetOf
<1>5. QED
  BY <1>1, <1>3, <1>4

\* The client calls when nothing is under way.
LEMMA AtClient ==
    ASSUME SentencesInv, frames = <<>>
    PROVE  /\ \A op : Walks(op) = {}
           /\ \A k : ~InSweep(k) /\ ~Erasing(k) /\ ~Updating(k) /\ ~ToldRemoved(k)
           /\ \A k \in S!entries : table_m[k] = S!AllEnabled(k)
           /\ \A k \in S!Key : k[1] \in notify_table_m => HeardAsTable(k)
<1>1. ToSet(frames) = {}
  BY ToSetOf DEF SentencesInv, SentenceTypes
<1>2. \A op : Walks(op) = {}
  BY <1>1 DEF Walks
<1>3. \A k : ~InSweep(k) /\ ~Erasing(k) /\ ~Updating(k) /\ ~ToldRemoved(k)
  BY <1>2 DEF InSweep, Erasing, Updating, ToldRemoved
<1>4. QED
  BY <1>2, <1>3 DEF SentencesInv, EntriesEnabled, EventsCurrent

\* A sweep that has just begun.
LEMMA SweepBegins ==
    ASSUME NEW f \in Walk, f.op = "sweep", frames' = <<f>>
    PROVE  /\ frames' \in Seq(Walk) /\ NestedIn(frames')
           /\ Walks("sweep")' = {f} /\ Walks("update")' = {}
           /\ Walks("erase")' = {} /\ Walks("remove")' = {}
           /\ \A k : /\ InSweep(k)' <=> k \in f.rest
                     /\ ~Erasing(k)' /\ ~Updating(k)' /\ ~ToldRemoved(k)'
<1>1. frames' \in Seq(Walk) /\ NestedIn(frames') /\ ToSet(frames') = {f}
  BY OneWalk
<1>2. /\ Walks("sweep")' = {f} /\ Walks("update")' = {}
      /\ Walks("erase")' = {} /\ Walks("remove")' = {}
  BY <1>1 DEF Walks
<1>3. QED
  BY <1>1, <1>2 DEF InSweep, Erasing, Updating, ToldRemoved

\* What a part that a key does not have changes about it.
LEMMA CompatibleSame ==
    ASSUME NEW k, NEW x, x \notin S!PartsOf(k),
           \A y \in S!Noun : y # x => (meets'[y] <=> meets[y])
    PROVE  S!Compatible(k)' <=> S!Compatible(k)
BY DEF S!Compatible

LEMMA AllEnabledSame ==
    ASSUME NEW k \in S!Key, NEW x, x \notin S!PartsOf(k),
           \A y \in S!Part : y # x => part_enabled'[y] = part_enabled[y]
    PROVE  S!AllEnabled(k)' = S!AllEnabled(k)
<1>1. \A y \in S!PartsOf(k) : part_enabled'[y] = part_enabled[y]
  BY KeyParts
<1>2. S!AllEnabled(k)' <=> S!AllEnabled(k)
  BY <1>1 DEF S!AllEnabled
<1>3. QED
  BY <1>2 DEF S!AllEnabled

LEMMA InsertKeeps ==
    ASSUME SentencesInv, NEW x \in S!Part, S!insert(x)
    PROVE  SentencesInv'
<1>1. /\ frames = <<>> /\ x \notin present /\ present' = present \cup {x}
      /\ UNCHANGED <<part_enabled, unswept, table_m, notify_table_m, told>>
  BY DEF S!insert, S!Client
<1>2. PICK b \in BOOLEAN : meets' = [y \in S!Noun |-> IF y = x THEN b ELSE meets[y]]
  BY DEF S!insert
<1>3. PICK f : f = [op |-> "sweep", of |-> x,
                    rest |-> {k \in S!Key : x \in S!PartsOf(k) /\ S!PartsOf(k) \subseteq present'}]
  OBVIOUS
<1>4. frames' = <<f>>
  BY <1>3 DEF S!insert, S!sweep_for
<1>5. /\ f \in Walk /\ f.op = "sweep"
      /\ f.rest = {k \in S!Key : x \in S!PartsOf(k) /\ S!PartsOf(k) \subseteq present'}
  BY <1>3 DEF Walk
<1>6. SentenceTypes' /\ NestedIn(frames')
  BY <1>1, <1>2, <1>4, <1>5, SweepBegins DEF SentencesInv, SentenceTypes, S!entries
<1>7. WalksTable'
  BY <1>4, <1>5, SweepBegins DEF WalksTable
<1>8. EntriesEnabled'
  BY <1>1, AtClient DEF SentencesInv, EntriesEnabled, S!entries, S!AllEnabled
<1>9. EntriesSwept'
  <2> SUFFICES ASSUME NEW k \in S!Key, S!PartsOf(k) \subseteq present',
                      S!PartsOf(k) \cap unswept = {}
               PROVE  (k \in S!entries <=> S!Compatible(k)') \/ InSweep(k)'
    BY <1>1 DEF EntriesSwept, S!entries
  <2>1. CASE x \in S!PartsOf(k)
    BY <1>4, <1>5, <2>1, SweepBegins
  <2>2. CASE x \notin S!PartsOf(k)
    <3>1. S!Compatible(k)' <=> S!Compatible(k)
      BY <1>2, <2>2, CompatibleSame
    <3>2. S!PartsOf(k) \subseteq present
      BY <1>1, <2>2
    <3>3. QED
      BY <1>1, <3>1, <3>2, AtClient DEF SentencesInv, EntriesSwept
  <2>3. QED
    BY <2>1, <2>2
<1>10. EventsCurrent'
  BY <1>1, <1>4, <1>5, AtClient, SweepBegins
     DEF SentencesInv, EventsCurrent, HeardAsTable, S!entries
<1>11. QED
  BY <1>6, <1>7, <1>8, <1>9, <1>10 DEF SentencesInv

LEMMA ChangesKeeps ==
    ASSUME SentencesInv, NEW x \in S!Noun, S!changes(x)
    PROVE  SentencesInv'
<1>1. /\ frames = <<>> /\ x \in present /\ unswept' = unswept \cup {x}
      /\ meets' = [meets EXCEPT ![x] = ~meets[x]]
      /\ UNCHANGED <<present, part_enabled, table_m, notify_table_m, told, frames>>
  BY DEF S!changes, S!Client
<1>2. \A y \in S!Noun : y # x => meets'[y] = meets[y]
  BY <1>1 DEF SentencesInv, SentenceTypes
<1>3. SentenceTypes' /\ NestedIn(frames')
  BY <1>1 DEF SentencesInv, SentenceTypes, S!entries
<1>4. \A op : Walks(op)' = {}
  BY <1>1, AtClient DEF Walks
<1>5. WalksTable'
  BY <1>4 DEF WalksTable
<1>6. EntriesEnabled'
  BY <1>1, AtClient DEF SentencesInv, EntriesEnabled, S!entries, S!AllEnabled
<1>7. EntriesSwept'
  <2> SUFFICES ASSUME NEW k \in S!Key, S!PartsOf(k) \subseteq present,
                      S!PartsOf(k) \cap unswept' = {}
               PROVE  k \in S!entries <=> S!Compatible(k)'
    BY <1>1 DEF EntriesSwept, S!entries
  <2>1. x \notin S!PartsOf(k) /\ S!PartsOf(k) \cap unswept = {}
    BY <1>1
  <2>2. S!Compatible(k)' <=> S!Compatible(k)
    BY <1>2, <2>1, CompatibleSame
  <2>3. QED
    BY <1>1, <2>1, <2>2, AtClient DEF SentencesInv, EntriesSwept
<1>8. EventsCurrent'
  <2>1. \A k : ~ToldRemoved(k)'
    BY <1>4 DEF ToldRemoved
  <2>2. QED
    BY <1>1, <2>1, AtClient DEF SentencesInv, EventsCurrent, HeardAsTable, S!entries
<1>9. QED
  BY <1>3, <1>5, <1>6, <1>7, <1>8 DEF SentencesInv

LEMMA UpdateKeeps ==
    ASSUME SentencesInv, NEW x \in S!Noun, S!update(x)
    PROVE  SentencesInv'
<1>1. /\ frames = <<>> /\ x \in unswept /\ unswept' = unswept \ {x}
      /\ UNCHANGED <<present, part_enabled, meets, table_m, notify_table_m, told>>
  BY DEF S!update, S!Client
<1>2. PICK f : f = [op |-> "sweep", of |-> x,
                    rest |-> {k \in S!Key : x \in S!PartsOf(k) /\ S!PartsOf(k) \subseteq present}]
  OBVIOUS
<1>3. frames' = <<f>>
  BY <1>2 DEF S!update, S!sweep_for
<1>4. /\ f \in Walk /\ f.op = "sweep"
      /\ f.rest = {k \in S!Key : x \in S!PartsOf(k) /\ S!PartsOf(k) \subseteq present}
  BY <1>2 DEF Walk, S!Part
<1>5. SentenceTypes' /\ NestedIn(frames')
  BY <1>1, <1>3, <1>4, SweepBegins DEF SentencesInv, SentenceTypes, S!entries
<1>6. WalksTable'
  BY <1>1, <1>3, <1>4, SweepBegins DEF WalksTable
<1>7. EntriesEnabled'
  BY <1>1, AtClient DEF SentencesInv, EntriesEnabled, S!entries, S!AllEnabled
<1>8. EntriesSwept'
  <2> SUFFICES ASSUME NEW k \in S!Key, S!PartsOf(k) \subseteq present,
                      S!PartsOf(k) \cap unswept' = {}
               PROVE  (k \in S!entries <=> S!Compatible(k)') \/ InSweep(k)'
    BY <1>1 DEF EntriesSwept, S!entries
  <2>1. CASE x \in S!PartsOf(k)
    BY <1>3, <1>4, <2>1, SweepBegins
  <2>2. CASE x \notin S!PartsOf(k)
    <3>1. S!Compatible(k)' <=> S!Compatible(k)
      BY <1>1 DEF S!Compatible
    <3>2. S!PartsOf(k) \cap unswept = {}
      BY <1>1, <2>2
    <3>3. QED
      BY <1>1, <3>1, <3>2, AtClient DEF SentencesInv, EntriesSwept
  <2>3. QED
    BY <2>1, <2>2
<1>9. EventsCurrent'
  BY <1>1, <1>3, <1>4, AtClient, SweepBegins
     DEF SentencesInv, EventsCurrent, HeardAsTable, S!entries
<1>10. QED
  BY <1>5, <1>6, <1>7, <1>8, <1>9 DEF SentencesInv

LEMMA EraseKeeps ==
    ASSUME SentencesInv, NEW x \in S!Part, S!erase(x)
    PROVE  SentencesInv'
<1>1. /\ frames = <<>> /\ x \in present
      /\ UNCHANGED <<present, part_enabled, meets, unswept, table_m, notify_table_m, told>>
  BY DEF S!erase, S!Client
<1>2. PICK f : f = [op |-> "remove", of |-> x, rest |-> S!equal_range(x)]
  OBVIOUS
<1>3. frames' = <<f>>
  BY <1>2 DEF S!erase
<1>4. /\ f \in Walk /\ f.op = "remove" /\ f.of = x /\ f.rest = S!equal_range(x)
  BY <1>2 DEF Walk, S!equal_range, SentencesInv, SentenceTypes
<1>5. frames' \in Seq(Walk) /\ NestedIn(frames') /\ ToSet(frames') = {f}
  BY <1>3, <1>4, OneWalk
<1>6. /\ Walks("remove")' = {f} /\ Walks("update")' = {}
      /\ Walks("sweep")' = {} /\ Walks("erase")' = {}
  BY <1>4, <1>5 DEF Walks
<1>7. S!entries' = S!entries /\ \A y : S!equal_range(y)' = S!equal_range(y)
  BY <1>1 DEF S!entries, S!equal_range
<1>8. \A k : ~InSweep(k)' /\ ~Erasing(k)' /\ ~Updating(k)' /\ ~ToldRemoved(k)'
  BY <1>4, <1>6, <1>7 DEF InSweep, Erasing, Updating, ToldRemoved
<1>9. SentenceTypes'
  BY <1>1, <1>5, <1>7 DEF SentencesInv, SentenceTypes
<1>10. WalksTable'
  BY <1>1, <1>4, <1>6, <1>7 DEF WalksTable
<1>11. EntriesEnabled'
  BY <1>1, <1>7, AtClient DEF SentencesInv, EntriesEnabled, S!AllEnabled
<1>12. EntriesSwept'
  BY <1>1, <1>7, AtClient DEF SentencesInv, EntriesSwept, S!Compatible
<1>13. EventsCurrent'
  BY <1>1, <1>7, <1>8, AtClient DEF SentencesInv, EventsCurrent, HeardAsTable
<1>14. QED
  BY <1>5, <1>9, <1>10, <1>11, <1>12, <1>13 DEF SentencesInv

LEMMA MonitorKeeps ==
    ASSUME SentencesInv, NEW s \in Sentence, S!monitor(s)
    PROVE  SentencesInv'
<1>1. /\ frames = <<>> /\ s \notin notify_table_m /\ notify_table_m' = notify_table_m \cup {s}
      /\ told' = [k \in S!Key |-> IF k \in S!equal_range(s) THEN "untold" ELSE told[k]]
      /\ UNCHANGED <<present, part_enabled, meets, unswept, table_m, frames>>
  BY DEF S!monitor, S!Client
<1>2. S!entries' = S!entries
  BY <1>1 DEF S!entries
<1>3. told' \in [S!Key -> SentenceState]
  BY <1>1 DEF SentencesInv, SentenceTypes, SentenceState
<1>4. SentenceTypes' /\ NestedIn(frames')
  BY <1>1, <1>2, <1>3 DEF SentencesInv, SentenceTypes
<1>5. \A op : Walks(op)' = {}
  BY <1>1, AtClient DEF Walks
<1>6. WalksTable'
  BY <1>5 DEF WalksTable
<1>7. EntriesEnabled'
  BY <1>1, <1>2, AtClient DEF SentencesInv, EntriesEnabled, S!AllEnabled
<1>8. EntriesSwept'
  BY <1>1, <1>2, AtClient DEF SentencesInv, EntriesSwept, S!Compatible
<1>9. EventsCurrent'
  <2>1. \A k : ~ToldRemoved(k)'
    BY <1>5 DEF ToldRemoved
  <2> SUFFICES ASSUME NEW k \in S!Key
               PROVE  /\ k[1] \notin notify_table_m' => told'[k] = "removed"
                      /\ k[1] \in notify_table_m' => HeardAsTable(k)'
    BY <2>1 DEF EventsCurrent
  <2>2. CASE k \in S!equal_range(s)
    <3>1. told'[k] = "untold"
      BY <1>1, <2>2
    <3>2. k[1] = s
      BY <2>2, KeyParts DEF S!equal_range
    <3>3. QED
      BY <1>1, <3>1, <3>2 DEF HeardAsTable
  <2>3. CASE k \notin S!equal_range(s)
    <3>1. told'[k] = told[k]
      BY <1>1, <2>3
    <3>2. k[1] = s => k \notin S!entries
      BY <2>3, KeyParts DEF S!equal_range
    <3>3. CASE k[1] = s
      BY <1>1, <1>2, <3>1, <3>2, <3>3 DEF SentencesInv, EventsCurrent, HeardAsTable
    <3>4. CASE k[1] # s
      BY <1>1, <1>2, <3>1, <3>4, AtClient DEF SentencesInv, EventsCurrent, HeardAsTable
    <3>5. QED
      BY <3>3, <3>4
  <2>4. QED
    BY <2>2, <2>3
<1>10. QED
  BY <1>4, <1>6, <1>7, <1>8, <1>9 DEF SentencesInv

------------------------------------------------------------------------------
(* The sentence command system: the loops *)

LEMMA EntryEvent ==
    ASSUME SentenceTypes, NEW k \in S!Key, NEW what \in SentenceState, S!entry_event(k, what)
    PROVE  /\ told' \in [S!Key -> SentenceState]
           /\ \A j \in S!Key : j # k => told'[j] = told[j]
           /\ k[1] \in notify_table_m => told'[k] = what
           /\ k[1] \notin notify_table_m => told'[k] = told[k]
<1>1. told \in [S!Key -> SentenceState]
  BY DEF SentenceTypes
<1>2. CASE k[1] \in notify_table_m
  BY <1>1, <1>2 DEF S!entry_event
<1>3. CASE k[1] \notin notify_table_m
  BY <1>1, <1>3 DEF S!entry_event
<1>4. QED
  BY <1>2, <1>3

\* A sweep, or a removal, is the only call under way when it goes on.
LEMMA OnlyWalk ==
    ASSUME SentencesInv, frames # <<>>, Head(frames).op \in {"sweep", "remove"}
    PROVE  /\ Tail(frames) = <<>> /\ ToSet(frames) = {Head(frames)} /\ Head(frames) \in Walk
           /\ Head(frames).rest \subseteq S!Key
           /\ \A k : ~Erasing(k) /\ ~Updating(k)
           /\ Head(frames).op = "sweep" => \A k : /\ InSweep(k) <=> k \in Head(frames).rest
                                                  /\ ~ToldRemoved(k)
           /\ Head(frames).op = "remove" =>
                  \A k : /\ ~InSweep(k)
                         /\ ToldRemoved(k) <=>
                                k \in S!equal_range(Head(frames).of) \ Head(frames).rest
<1>1. frames \in Seq(Walk) /\ NestedIn(frames)
  BY DEF SentencesInv, SentenceTypes
<1>2. /\ Tail(frames) = <<>> /\ Head(frames) \in Walk
      /\ ToSet(frames) = {Head(frames)} \cup ToSet(Tail(frames))
  BY <1>1, PopSame
<1>3. ToSet(Tail(frames)) = {}
  <2>1. <<>> \in Seq(Walk)
    OBVIOUS
  <2>2. QED
    BY <1>2, <2>1, ToSetOf
<1>4. ToSet(frames) = {Head(frames)}
  BY <1>2, <1>3
<1>5. Head(frames).rest \subseteq S!Key
  BY <1>2 DEF Walk
<1>6. \A op : Walks(op) = IF Head(frames).op = op THEN {Head(frames)} ELSE {}
  BY <1>4 DEF Walks
<1>7. QED
  BY <1>2, <1>4, <1>5, <1>6 DEF InSweep, Erasing, Updating, ToldRemoved

LEMMA RemoveEventKeeps ==
    ASSUME SentencesInv, S!remove_event
    PROVE  SentencesInv'
<1>1. PICK h : h = Head(frames)
  OBVIOUS
<1>2. /\ frames # <<>> /\ h.op = "remove"
      /\ UNCHANGED <<present, part_enabled, meets, unswept, table_m, notify_table_m>>
  BY <1>1 DEF S!remove_event, S!Loop
<1>3. PICK k \in h.rest : S!entry_event(k, "removed") /\ S!Goes_on(k)
  BY <1>1 DEF S!remove_event
<1>4. PICK g : g = [h EXCEPT !.rest = @ \ {k}]
  OBVIOUS
<1>5. /\ h \in Walk /\ Tail(frames) = <<>> /\ h.rest \subseteq S!Key /\ ToSet(frames) = {h}
      /\ \A j : /\ ~Erasing(j) /\ ~Updating(j) /\ ~InSweep(j)
                /\ ToldRemoved(j) <=> j \in S!equal_range(h.of) \ h.rest
  BY <1>1, <1>2, OnlyWalk
<1>6. g \in Walk /\ g.op = "remove" /\ g.of = h.of /\ g.rest = h.rest \ {k}
  BY <1>2, <1>4, <1>5 DEF Walk
<1>7. frames' = <<g>>
  <2>1. frames' = <<g>> \o Tail(frames)
    BY <1>1, <1>3, <1>4 DEF S!Goes_on
  <2>2. <<g>> \in Seq(Walk)
    BY <1>6
  <2>3. QED
    BY <1>5, <2>1, <2>2, ConcatEmptySeq
<1>8. frames' \in Seq(Walk) /\ NestedIn(frames') /\ ToSet(frames') = {g}
  BY <1>6, <1>7, OneWalk
<1>9. /\ Walks("remove")' = {g} /\ Walks("update")' = {}
      /\ Walks("sweep")' = {} /\ Walks("erase")' = {}
  BY <1>6, <1>8 DEF Walks
<1>10. S!entries' = S!entries /\ \A y : S!equal_range(y)' = S!equal_range(y)
  BY <1>2 DEF S!entries, S!equal_range
<1>11. /\ told' \in [S!Key -> SentenceState]
       /\ \A j \in S!Key : j # k => told'[j] = told[j]
       /\ k[1] \in notify_table_m => told'[k] = "removed"
       /\ k[1] \notin notify_table_m => told'[k] = told[k]
  BY <1>3, <1>5, EntryEvent DEF SentencesInv, SentenceState
<1>12. h.of \in present /\ h.rest \subseteq S!equal_range(h.of)
  BY <1>2, <1>5 DEF SentencesInv, WalksTable, Walks
<1>13. \A j : ToldRemoved(j)' <=> j \in S!equal_range(h.of) \ g.rest
  BY <1>6, <1>9, <1>10 DEF ToldRemoved
<1>14. SentenceTypes'
  BY <1>2, <1>8, <1>10, <1>11 DEF SentencesInv, SentenceTypes
<1>15. WalksTable'
  BY <1>2, <1>6, <1>9, <1>10, <1>12 DEF WalksTable
<1>16. EntriesEnabled'
  BY <1>2, <1>5, <1>10 DEF SentencesInv, EntriesEnabled, S!AllEnabled
<1>17. EntriesSwept'
  BY <1>2, <1>5, <1>10 DEF SentencesInv, EntriesSwept, S!Compatible
<1>18. EventsCurrent'
  <2> SUFFICES ASSUME NEW j \in S!Key
               PROVE  /\ j[1] \notin notify_table_m => told'[j] = "removed"
                      /\ j[1] \in notify_table_m =>
                            /\ HeardAsTable(j)' \/ ToldRemoved(j)'
                            /\ ToldRemoved(j)' => told'[j] = "removed"
    BY <1>2 DEF EventsCurrent
  <2>1. CASE j = k
    BY <1>3, <1>6, <1>11, <1>12, <1>13, <2>1 DEF SentencesInv, EventsCurrent
  <2>2. CASE j # k
    <3>1. ToldRemoved(j)' <=> ToldRemoved(j)
      BY <1>5, <1>6, <1>13, <2>2
    <3>2. HeardAsTable(j)' <=> HeardAsTable(j)
      BY <1>2, <1>10, <1>11, <2>2 DEF HeardAsTable
    <3>3. QED
      BY <1>5, <1>11, <2>2, <3>1, <3>2 DEF SentencesInv, EventsCurrent
  <2>3. QED
    BY <2>1, <2>2
<1>19. QED
  BY <1>8, <1>14, <1>15, <1>16, <1>17, <1>18 DEF SentencesInv

LEMMA RemoveEndsKeeps ==
    ASSUME SentencesInv, S!remove_ends
    PROVE  SentencesInv'
<1>1. PICK h, x : h = Head(frames) /\ x = h.of
  OBVIOUS
<1>2. /\ frames # <<>> /\ h.op = "remove" /\ h.rest = {}
      /\ table_m' = S!Restrict(table_m, S!entries \ S!equal_range(x))
      /\ present' = present \ {x} /\ unswept' = unswept \ {x}
      /\ part_enabled' = [part_enabled EXCEPT ![x] = TRUE]
      /\ meets' = [y \in S!Noun |-> y # x /\ meets[y]]
      /\ frames' = Tail(frames) /\ UNCHANGED <<told, notify_table_m>>
  BY <1>1 DEF S!remove_ends, S!Loop, S!ends
<1>3. /\ Tail(frames) = <<>> /\ ToSet(frames) = {h}
      /\ \A j : /\ ~Erasing(j) /\ ~Updating(j) /\ ~InSweep(j)
                /\ ToldRemoved(j) <=> j \in S!equal_range(x)
  BY <1>1, <1>2, OnlyWalk
<1>4. frames' = <<>>
  BY <1>2, <1>3
<1>5. frames' \in Seq(Walk) /\ NestedIn(frames') /\ ToSet(frames') = {}
  <2>1. <<>> \in Seq(Walk) /\ 1..Len(<<>>) = {}
    OBVIOUS
  <2>2. QED
    BY <1>4, <2>1, ToSetOf DEF NestedIn
<1>6. \A op : Walks(op)' = {}
  BY <1>5 DEF Walks
<1>7. \A k : ~ToldRemoved(k)'
  BY <1>6 DEF ToldRemoved
<1>8. /\ S!entries' = S!entries \ S!equal_range(x)
      /\ \A k \in S!entries' : table_m'[k] = table_m[k]
  BY <1>2 DEF S!entries, S!Restrict
<1>9. \A k \in S!entries : k \in S!entries' <=> x \notin S!PartsOf(k)
  BY <1>8 DEF S!equal_range
<1>10. /\ part_enabled' \in [S!Part -> BOOLEAN]
       /\ \A y \in S!Part : y # x => part_enabled'[y] = part_enabled[y]
  BY <1>2 DEF SentencesInv, SentenceTypes
<1>11. /\ meets' \in [S!Noun -> BOOLEAN]
       /\ \A y \in S!Noun : y # x => (meets'[y] <=> meets[y])
  BY <1>2 DEF SentencesInv, SentenceTypes
<1>12. SentenceTypes'
  <2>1. table_m \in [S!entries -> BOOLEAN] /\ S!entries \subseteq S!Key
    BY DEF SentencesInv, SentenceTypes
  <2>2. S!entries' \subseteq S!Key /\ table_m' = [k \in S!entries' |-> table_m[k]]
    BY <1>2, <1>8, <2>1 DEF S!Restrict
  <2>3. table_m' \in [S!entries' -> BOOLEAN]
    BY <1>8, <2>1, <2>2
  <2>4. QED
    BY <1>2, <1>5, <1>10, <1>11, <2>2, <2>3 DEF SentencesInv, SentenceTypes
<1>13. WalksTable'
  BY <1>6 DEF WalksTable
<1>14. EntriesEnabled'
  <2> SUFFICES ASSUME NEW k \in S!entries'
               PROVE  S!PartsOf(k) \subseteq present' /\ table_m'[k] = S!AllEnabled(k)'
    BY DEF EntriesEnabled
  <2>1. k \in S!entries /\ x \notin S!PartsOf(k) /\ k \in S!Key
    BY <1>8, <1>9 DEF SentencesInv, SentenceTypes
  <2>2. S!PartsOf(k) \subseteq present /\ table_m[k] = S!AllEnabled(k)
    BY <1>3, <2>1 DEF SentencesInv, EntriesEnabled
  <2>3. S!AllEnabled(k)' = S!AllEnabled(k)
    BY <1>10, <2>1, AllEnabledSame
  <2>4. QED
    BY <1>2, <1>8, <2>1, <2>2, <2>3
<1>15. EntriesSwept'
  <2> SUFFICES ASSUME NEW k \in S!Key, S!PartsOf(k) \subseteq present',
                      S!PartsOf(k) \cap unswept' = {}
               PROVE  k \in S!entries' <=> S!Compatible(k)'
    BY DEF EntriesSwept
  <2>1. x \notin S!PartsOf(k) /\ S!PartsOf(k) \subseteq present /\ S!PartsOf(k) \cap unswept = {}
    BY <1>2
  <2>2. S!Compatible(k)' <=> S!Compatible(k)
    BY <1>11, <2>1, CompatibleSame
  <2>3. k \in S!entries <=> S!Compatible(k)
    BY <1>3, <2>1 DEF SentencesInv, EntriesSwept
  <2>4. QED
    BY <1>8, <1>9, <2>1, <2>2, <2>3
<1>16. EventsCurrent'
  <2> SUFFICES ASSUME NEW k \in S!Key
               PROVE  /\ k[1] \notin notify_table_m => told[k] = "removed"
                      /\ k[1] \in notify_table_m => HeardAsTable(k)'
    BY <1>2, <1>7 DEF EventsCurrent
  <2>1. CASE k \in S!equal_range(x)
    BY <1>2, <1>3, <1>8, <2>1 DEF SentencesInv, EventsCurrent, HeardAsTable
  <2>2. CASE k \notin S!equal_range(x)
    <3>1. (k \in S!entries' <=> k \in S!entries) /\ (k \in S!entries => table_m'[k] = table_m[k])
      BY <1>8, <2>2
    <3>2. HeardAsTable(k)' <=> HeardAsTable(k)
      BY <1>2, <3>1 DEF HeardAsTable
    <3>3. QED
      BY <1>3, <2>2, <3>2 DEF SentencesInv, EventsCurrent
  <2>3. QED
    BY <2>1, <2>2
<1>17. QED
  BY <1>5, <1>12, <1>13, <1>14, <1>15, <1>16 DEF SentencesInv

LEMMA EraseEntryKeeps ==
    ASSUME SentencesInv, S!erase_entry
    PROVE  SentencesInv'
<1>1. PICK e, k : e = Head(frames) /\ k = e.of
  OBVIOUS
<1>2. /\ frames # <<>> /\ e.op = "erase"
      /\ table_m' = S!Restrict(table_m, S!entries \ {k})
      /\ frames' = Tail(frames)
      /\ UNCHANGED <<present, part_enabled, meets, unswept, notify_table_m, told>>
  BY <1>1 DEF S!erase_entry, S!Loop
<1>3. /\ frames' \in Seq(Walk) /\ NestedIn(frames')
      /\ ToSet(frames) = {e} \cup ToSet(frames') /\ \A f \in ToSet(frames') : f.op = "sweep"
  BY <1>1, <1>2, PopSame DEF SentencesInv, SentenceTypes
<1>4. /\ Walks("sweep")' = Walks("sweep") /\ Walks("erase") = {e} /\ Walks("erase")' = {}
      /\ Walks("update") = {} /\ Walks("update")' = {}
      /\ Walks("remove") = {} /\ Walks("remove")' = {}
  BY <1>2, <1>3 DEF Walks
<1>5. /\ k \in S!entries /\ ~S!Compatible(k) /\ k \in S!Key
      /\ k[1] \in notify_table_m => told[k] = "removed"
  BY <1>1, <1>4 DEF SentencesInv, WalksTable, SentenceTypes
<1>6. \A j : /\ InSweep(j)' <=> InSweep(j)
             /\ ~Erasing(j)' /\ (Erasing(j) <=> j = k)
             /\ ~Updating(j) /\ ~ToldRemoved(j) /\ ~ToldRemoved(j)'
  BY <1>1, <1>4 DEF InSweep, Erasing, Updating, ToldRemoved
<1>7. /\ S!entries' = S!entries \ {k} /\ \A j \in S!entries' : table_m'[j] = table_m[j]
  BY <1>2 DEF S!entries, S!Restrict
<1>8. SentenceTypes'
  <2>1. table_m \in [S!entries -> BOOLEAN] /\ S!entries \subseteq S!Key
    BY DEF SentencesInv, SentenceTypes
  <2>2. S!entries' \subseteq S!Key /\ table_m' = [j \in S!entries' |-> table_m[j]]
    BY <1>2, <1>7, <2>1 DEF S!Restrict
  <2>3. table_m' \in [S!entries' -> BOOLEAN]
    BY <1>7, <2>1, <2>2
  <2>4. QED
    BY <1>2, <1>3, <2>2, <2>3 DEF SentencesInv, SentenceTypes
<1>9. WalksTable'
  BY <1>2, <1>4 DEF SentencesInv, WalksTable
<1>10. EntriesEnabled'
  BY <1>2, <1>6, <1>7 DEF SentencesInv, EntriesEnabled, S!AllEnabled
<1>11. EntriesSwept'
  <2> SUFFICES ASSUME NEW j \in S!Key, S!PartsOf(j) \subseteq present,
                      S!PartsOf(j) \cap unswept = {}
               PROVE  (j \in S!entries' <=> S!Compatible(j)) \/ InSweep(j)
    BY <1>2, <1>6 DEF EntriesSwept, S!Compatible
  <2>1. QED
    BY <1>5, <1>6, <1>7 DEF SentencesInv, EntriesSwept
<1>12. EventsCurrent'
  <2> SUFFICES ASSUME NEW j \in S!Key
               PROVE  /\ j[1] \notin notify_table_m => told[j] = "removed"
                      /\ j[1] \in notify_table_m => HeardAsTable(j)'
    BY <1>2, <1>6 DEF EventsCurrent
  <2>1. CASE j = k
    BY <1>2, <1>5, <1>7, <2>1 DEF SentencesInv, EventsCurrent, HeardAsTable
  <2>2. CASE j # k
    <3>1. HeardAsTable(j)' <=> HeardAsTable(j)
      BY <1>2, <1>7, <2>2 DEF HeardAsTable
    <3>2. QED
      BY <1>6, <2>2, <3>1 DEF SentencesInv, EventsCurrent
  <2>3. QED
    BY <2>1, <2>2
<1>13. QED
  BY <1>3, <1>8, <1>9, <1>10, <1>11, <1>12 DEF SentencesInv

\* What a sweep does about one of its keys: nothing, where the table has it right.
LEMMA SweepPasses ==
    ASSUME SentencesInv, NEW h, h = Head(frames), frames # <<>>, h.op = "sweep", NEW k \in h.rest,
           k \in S!entries <=> S!Compatible(k),
           S!Goes_on(k), UNCHANGED <<table_m, told>>,
           UNCHANGED <<present, part_enabled, meets, unswept, notify_table_m>>
    PROVE  SentencesInv'
<1>1. PICK g : g = [h EXCEPT !.rest = @ \ {k}]
  OBVIOUS
<1>2. /\ h \in Walk /\ Tail(frames) = <<>> /\ ToSet(frames) = {h}
      /\ \A j : /\ ~Erasing(j) /\ ~Updating(j) /\ ~ToldRemoved(j)
                /\ InSweep(j) <=> j \in h.rest
  BY OnlyWalk
<1>3. g \in Walk /\ g.op = "sweep" /\ g.rest = h.rest \ {k}
  BY <1>1, <1>2 DEF Walk
<1>4. frames' = <<g>>
  <2>1. frames' = <<g>> \o Tail(frames)
    BY <1>1 DEF S!Goes_on
  <2>2. <<g>> \in Seq(Walk)
    BY <1>3
  <2>3. QED
    BY <1>2, <2>1, <2>2, ConcatEmptySeq
<1>5. S!entries' = S!entries
  BY DEF S!entries
<1>6. SentenceTypes' /\ NestedIn(frames')
  BY <1>3, <1>4, <1>5, SweepBegins DEF SentencesInv, SentenceTypes
<1>7. \A j \in h.rest : S!PartsOf(j) \subseteq present
  BY <1>2 DEF SentencesInv, WalksTable, Walks
<1>8. WalksTable'
  BY <1>3, <1>4, <1>7, SweepBegins DEF WalksTable
<1>9. EntriesEnabled'
  BY <1>2, <1>5 DEF SentencesInv, EntriesEnabled, S!AllEnabled
<1>10. EntriesSwept'
  <2> SUFFICES ASSUME NEW j \in S!Key, S!PartsOf(j) \subseteq present,
                      S!PartsOf(j) \cap unswept = {}
               PROVE  (j \in S!entries <=> S!Compatible(j)) \/ InSweep(j)'
    BY <1>5 DEF EntriesSwept, S!Compatible
  <2>1. QED
    BY <1>2, <1>3, <1>4, SweepBegins DEF SentencesInv, EntriesSwept
<1>11. EventsCurrent'
  BY <1>2, <1>3, <1>4, <1>5, SweepBegins DEF SentencesInv, EventsCurrent, HeardAsTable
<1>12. QED
  BY <1>6, <1>8, <1>9, <1>10, <1>11 DEF SentencesInv

\* An entry is made of a compatible key.
LEMMA SweepInserts ==
    ASSUME SentencesInv, NEW h, h = Head(frames), frames # <<>>, h.op = "sweep", NEW k \in h.rest,
           k \notin S!entries, S!Compatible(k),
           table_m' = [e \in S!entries \cup {k} |->
                          IF e = k THEN S!AllEnabled(k) ELSE table_m[e]],
           S!entry_event(k, S!StateOf(S!AllEnabled(k))), S!Goes_on(k),
           UNCHANGED <<present, part_enabled, meets, unswept, notify_table_m>>
    PROVE  SentencesInv'
<1>1. PICK g : g = [h EXCEPT !.rest = @ \ {k}]
  OBVIOUS
<1>2. /\ h \in Walk /\ Tail(frames) = <<>> /\ ToSet(frames) = {h} /\ h.rest \subseteq S!Key
      /\ \A j : /\ ~Erasing(j) /\ ~Updating(j) /\ ~ToldRemoved(j)
                /\ InSweep(j) <=> j \in h.rest
  BY OnlyWalk
<1>3. g \in Walk /\ g.op = "sweep" /\ g.rest = h.rest \ {k}
  BY <1>1, <1>2 DEF Walk
<1>4. frames' = <<g>>
  <2>1. frames' = <<g>> \o Tail(frames)
    BY <1>1 DEF S!Goes_on
  <2>2. <<g>> \in Seq(Walk)
    BY <1>3
  <2>3. QED
    BY <1>2, <2>1, <2>2, ConcatEmptySeq
<1>5. /\ S!entries' = S!entries \cup {k} /\ table_m'[k] = S!AllEnabled(k)
      /\ \A j \in S!entries : table_m'[j] = table_m[j]
  BY DEF S!entries
<1>6. k \in S!Key /\ S!AllEnabled(k) \in BOOLEAN
  BY <1>2 DEF S!AllEnabled
<1>7. /\ told' \in [S!Key -> SentenceState]
      /\ \A j \in S!Key : j # k => told'[j] = told[j]
      /\ k[1] \in notify_table_m => told'[k] = S!StateOf(S!AllEnabled(k))
      /\ k[1] \notin notify_table_m => told'[k] = told[k]
  <2>1. S!StateOf(S!AllEnabled(k)) \in SentenceState
    BY DEF S!StateOf, SentenceState
  <2>2. QED
    BY <1>6, <2>1, EntryEvent DEF SentencesInv
<1>8. SentenceTypes'
  <2>1. table_m \in [S!entries -> BOOLEAN] /\ S!entries \subseteq S!Key
    BY DEF SentencesInv, SentenceTypes
  <2>2. table_m' = [e \in S!entries' |-> IF e = k THEN S!AllEnabled(k) ELSE table_m[e]]
    BY <1>5
  <2>3. \A e \in S!entries' : (IF e = k THEN S!AllEnabled(k) ELSE table_m[e]) \in BOOLEAN
    BY <1>5, <1>6, <2>1
  <2>4. table_m' \in [S!entries' -> BOOLEAN] /\ S!entries' \subseteq S!Key
    BY <1>5, <1>6, <2>1, <2>2, <2>3
  <2>5. frames' \in Seq(Walk)
    BY <1>3, <1>4, SweepBegins
  <2>6. QED
    BY <1>7, <2>4, <2>5 DEF SentencesInv, SentenceTypes
<1>9. NestedIn(frames')
  BY <1>3, <1>4, SweepBegins
<1>10. \A j \in h.rest : S!PartsOf(j) \subseteq present
  BY <1>2 DEF SentencesInv, WalksTable, Walks
<1>11. WalksTable'
  BY <1>3, <1>4, <1>10, SweepBegins DEF WalksTable
<1>12. EntriesEnabled'
  <2> SUFFICES ASSUME NEW j \in S!entries'
               PROVE  S!PartsOf(j) \subseteq present /\ table_m'[j] = S!AllEnabled(j)
    BY DEF EntriesEnabled, S!AllEnabled
  <2>1. QED
    BY <1>2, <1>5, <1>10 DEF SentencesInv, EntriesEnabled
<1>13. EntriesSwept'
  <2> SUFFICES ASSUME NEW j \in S!Key, S!PartsOf(j) \subseteq present,
                      S!PartsOf(j) \cap unswept = {}
               PROVE  (j \in S!entries' <=> S!Compatible(j)) \/ InSweep(j)'
    BY DEF EntriesSwept, S!Compatible
  <2>1. QED
    BY <1>2, <1>3, <1>4, <1>5, SweepBegins DEF SentencesInv, EntriesSwept
<1>14. EventsCurrent'
  <2> SUFFICES ASSUME NEW j \in S!Key
               PROVE  /\ j[1] \notin notify_table_m => told'[j] = "removed"
                      /\ j[1] \in notify_table_m => HeardAsTable(j)'
    BY <1>3, <1>4, SweepBegins DEF EventsCurrent
  <2>1. CASE j = k
    BY <1>5, <1>7, <2>1 DEF SentencesInv, EventsCurrent, HeardAsTable, S!StateOf
  <2>2. CASE j # k
    <3>1. HeardAsTable(j)' <=> HeardAsTable(j)
      BY <1>5, <1>7, <2>2 DEF HeardAsTable, S!StateOf
    <3>2. QED
      BY <1>2, <1>7, <2>2, <3>1 DEF SentencesInv, EventsCurrent
  <2>3. QED
    BY <2>1, <2>2
<1>15. QED
  BY <1>8, <1>9, <1>11, <1>12, <1>13, <1>14 DEF SentencesInv

\* An entry that is no longer compatible is to be erased when its monitor has heard.
LEMMA SweepErases ==
    ASSUME SentencesInv, NEW h, h = Head(frames), frames # <<>>, h.op = "sweep", NEW k \in h.rest,
           k \in S!entries, ~S!Compatible(k), S!entry_event(k, "removed"),
           frames' = <<[op |-> "erase", of |-> k, rest |-> {}],
                       [h EXCEPT !.rest = @ \ {k}]>> \o Tail(frames),
           UNCHANGED <<present, part_enabled, meets, unswept, table_m, notify_table_m>>
    PROVE  SentencesInv'
<1>1. PICK e, g : e = [op |-> "erase", of |-> k, rest |-> {}] /\ g = [h EXCEPT !.rest = @ \ {k}]
  OBVIOUS
<1>2. /\ h \in Walk /\ Tail(frames) = <<>> /\ ToSet(frames) = {h} /\ h.rest \subseteq S!Key
      /\ \A j : /\ ~Erasing(j) /\ ~Updating(j) /\ ~ToldRemoved(j)
                /\ InSweep(j) <=> j \in h.rest
  BY OnlyWalk
<1>3. /\ g \in Walk /\ g.op = "sweep" /\ g.rest = h.rest \ {k}
      /\ e \in Walk /\ e.op = "erase" /\ e.of = k /\ k \in S!Key
  BY <1>1, <1>2 DEF Walk
<1>4. frames' = <<e, g>>
  <2>1. frames' = <<e, g>> \o Tail(frames)
    BY <1>1
  <2>2. <<e, g>> \in Seq(Walk)
    BY <1>3
  <2>3. QED
    BY <1>2, <2>1, <2>2, ConcatEmptySeq
<1>5. frames' \in Seq(Walk) /\ NestedIn(frames') /\ ToSet(frames') = {e, g}
  <2>1. <<e, g>> \in Seq(Walk) /\ NestedIn(<<e, g>>) /\ ToSet(<<e, g>>) = {e, g}
    BY <1>3, TwoWalks
  <2>2. QED
    BY <1>4, <2>1
<1>6. /\ Walks("sweep")' = {g} /\ Walks("erase")' = {e}
      /\ Walks("update")' = {} /\ Walks("remove")' = {}
  BY <1>3, <1>5 DEF Walks
<1>7. \A j : /\ Erasing(j)' <=> j = k
             /\ InSweep(j)' <=> j \in h.rest /\ j # k
             /\ ~ToldRemoved(j)'
  BY <1>3, <1>6 DEF Erasing, InSweep, ToldRemoved
<1>8. S!entries' = S!entries
  BY DEF S!entries
<1>9. /\ told' \in [S!Key -> SentenceState]
      /\ \A j \in S!Key : j # k => told'[j] = told[j]
      /\ k[1] \in notify_table_m => told'[k] = "removed"
      /\ k[1] \notin notify_table_m => told'[k] = told[k]
  BY <1>3, EntryEvent DEF SentencesInv, SentenceState
<1>10. SentenceTypes'
  BY <1>5, <1>8, <1>9 DEF SentencesInv, SentenceTypes
<1>11. WalksTable'
  <2>1. \A j \in h.rest : S!PartsOf(j) \subseteq present
    BY <1>2 DEF SentencesInv, WalksTable, Walks
  <2>2. ~S!Compatible(k)'
    BY DEF S!Compatible
  <2>3. QED
    BY <1>3, <1>6, <1>8, <1>9, <2>1, <2>2 DEF WalksTable
<1>12. EntriesEnabled'
  BY <1>2, <1>8 DEF SentencesInv, EntriesEnabled, S!AllEnabled
<1>13. EntriesSwept'
  <2> SUFFICES ASSUME NEW j \in S!Key, S!PartsOf(j) \subseteq present,
                      S!PartsOf(j) \cap unswept = {}
               PROVE  (j \in S!entries <=> S!Compatible(j)) \/ InSweep(j)' \/ Erasing(j)'
    BY <1>8 DEF EntriesSwept, S!Compatible
  <2>1. QED
    BY <1>2, <1>7 DEF SentencesInv, EntriesSwept
<1>14. EventsCurrent'
  <2> SUFFICES ASSUME NEW j \in S!Key
               PROVE  /\ j[1] \notin notify_table_m => told'[j] = "removed"
                      /\ j[1] \in notify_table_m => HeardAsTable(j)' \/ Erasing(j)'
    BY <1>7 DEF EventsCurrent
  <2>1. CASE j = k
    BY <1>7, <1>9, <2>1 DEF SentencesInv, EventsCurrent
  <2>2. CASE j # k
    <3>1. HeardAsTable(j)' <=> HeardAsTable(j)
      BY <1>8, <1>9, <2>2 DEF HeardAsTable
    <3>2. QED
      BY <1>2, <1>9, <2>2, <3>1 DEF SentencesInv, EventsCurrent
  <2>3. QED
    BY <2>1, <2>2
<1>15. QED
  BY <1>5, <1>10, <1>11, <1>12, <1>13, <1>14 DEF SentencesInv

LEMMA ValidationKeeps ==
    ASSUME SentencesInv, S!validation
    PROVE  SentencesInv'
<1>1. /\ frames # <<>> /\ Head(frames).op = "sweep"
      /\ UNCHANGED <<present, part_enabled, meets, unswept, notify_table_m>>
  BY DEF S!validation, S!Loop
<1>2. PICK k \in Head(frames).rest :
        CASE k \in S!entries /\ ~S!Compatible(k) ->
                  /\ S!entry_event(k, "removed")
                  /\ frames' = <<[op |-> "erase", of |-> k, rest |-> {}],
                                 [Head(frames) EXCEPT !.rest = @ \ {k}]>> \o Tail(frames)
                  /\ UNCHANGED table_m
          [] k \notin S!entries /\ S!Compatible(k) ->
                  /\ table_m' = [e \in S!entries \cup {k} |->
                                    IF e = k THEN S!AllEnabled(k) ELSE table_m[e]]
                  /\ S!entry_event(k, S!StateOf(S!AllEnabled(k)))
                  /\ S!Goes_on(k)
          [] OTHER -> S!Goes_on(k) /\ in_monitor' = FALSE /\ UNCHANGED <<table_m, told>>
  BY DEF S!validation
<1>3. CASE k \in S!entries /\ ~S!Compatible(k)
  <2>1. /\ S!entry_event(k, "removed")
        /\ frames' = <<[op |-> "erase", of |-> k, rest |-> {}],
                       [Head(frames) EXCEPT !.rest = @ \ {k}]>> \o Tail(frames)
        /\ UNCHANGED table_m
    BY <1>2, <1>3
  <2>2. QED
    BY <1>1, <1>3, <2>1, SweepErases
<1>4. CASE k \notin S!entries /\ S!Compatible(k)
  <2>1. /\ table_m' = [e \in S!entries \cup {k} |->
                          IF e = k THEN S!AllEnabled(k) ELSE table_m[e]]
        /\ S!entry_event(k, S!StateOf(S!AllEnabled(k)))
        /\ S!Goes_on(k)
    BY <1>2, <1>4
  <2>2. QED
    BY <1>1, <1>4, <2>1, SweepInserts
<1>5. CASE k \in S!entries <=> S!Compatible(k)
  <2>1. S!Goes_on(k) /\ UNCHANGED <<table_m, told>>
    BY <1>2, <1>5
  <2>2. QED
    BY <1>1, <1>5, <2>1, SweepPasses
<1>6. QED
  BY <1>3, <1>4, <1>5

------------------------------------------------------------------------------
(* The sentence command system: enabling *)

\* Enabling a part makes an update of its entries due.  Under a removal it is of
\* another part of the same column, and never under the erasing of an entry.
LEMMA EnableKeeps ==
    ASSUME SentencesInv, NEW x \in S!Part, NEW b \in BOOLEAN, S!enable(x, b)
    PROVE  SentencesInv'
<1>1. PICK f : f = [op |-> "update", of |-> x, rest |-> S!equal_range(x)]
  OBVIOUS
<1>2. /\ x \in present /\ S!MayCall(S!column(x))
      /\ \A i \in DOMAIN frames : frames[i].op = "remove" => frames[i].of # x
      /\ part_enabled' = [part_enabled EXCEPT ![x] = b]
      /\ frames' = <<f>> \o frames
      /\ UNCHANGED <<present, meets, unswept, table_m, notify_table_m, told>>
  BY <1>1 DEF S!enable
<1>3. /\ f \in Walk /\ f.op = "update" /\ f.of = x /\ f.rest = S!equal_range(x)
  BY <1>1 DEF Walk, S!equal_range, SentencesInv, SentenceTypes
<1>4. frames \in Seq(Walk) /\ NestedIn(frames)
  BY DEF SentencesInv, SentenceTypes
<1>5. \A g \in ToSet(frames) : /\ g.op # "erase"
                               /\ g.op = "remove" => g.of # x /\ S!column(x) = S!column(g.of)
  <2> SUFFICES ASSUME NEW g \in ToSet(frames)
               PROVE  /\ g.op # "erase"
                      /\ g.op = "remove" => g.of # x /\ S!column(x) = S!column(g.of)
    OBVIOUS
  <2>1. PICK i \in DOMAIN frames : frames[i] = g
    BY DEF ToSet
  <2>2. frames # <<>>
    BY <2>1
  <2>3. g.op = "sweep" \/ S!column(x) = S!sorted_to(g)
    BY <1>2, <2>1, <2>2 DEF S!MayCall, S!SafeCall, S!Client
  <2>4. g.op = "erase" => S!sorted_to(g) = 0
    BY DEF S!sorted_to
  <2>5. g.op # "erase" => S!sorted_to(g) = S!column(g.of)
    BY DEF S!sorted_to
  <2>6. g.op # "erase"
    BY <2>3, <2>4, Columns
  <2>7. QED
    BY <1>2, <2>1, <2>3, <2>5, <2>6
<1>6. /\ frames' \in Seq(Walk) /\ NestedIn(frames') /\ ToSet(frames') = {f} \cup ToSet(frames)
  BY <1>2, <1>3, <1>4, <1>5, PushSame
<1>7. /\ Walks("update")' = Walks("update") \cup {f}
      /\ Walks("sweep")' = Walks("sweep") /\ Walks("erase") = {} /\ Walks("erase")' = {}
      /\ Walks("remove")' = Walks("remove")
  BY <1>3, <1>5, <1>6 DEF Walks
<1>8. S!entries' = S!entries /\ \A y : S!equal_range(y)' = S!equal_range(y)
  BY <1>2 DEF S!entries, S!equal_range
<1>9. \A k : /\ Updating(k)' <=> Updating(k) \/ k \in S!equal_range(x)
             /\ InSweep(k)' <=> InSweep(k)
             /\ ~Erasing(k) /\ ~Erasing(k)'
             /\ ToldRemoved(k)' <=> ToldRemoved(k)
  BY <1>3, <1>7, <1>8 DEF Updating, InSweep, Erasing, ToldRemoved
<1>10. /\ part_enabled' \in [S!Part -> BOOLEAN]
       /\ \A y \in S!Part : y # x => part_enabled'[y] = part_enabled[y]
  BY <1>2 DEF SentencesInv, SentenceTypes
<1>11. SentenceTypes'
  BY <1>2, <1>6, <1>8, <1>10 DEF SentencesInv, SentenceTypes
<1>12. WalksTable'
  <2>1. \A g \in Walks("remove") : g.of # x /\ S!column(x) = S!column(g.of)
    BY <1>5 DEF Walks
  <2>2. QED
    BY <1>2, <1>3, <1>7, <1>8, <2>1 DEF SentencesInv, WalksTable
<1>13. EntriesEnabled'
  <2> SUFFICES ASSUME NEW k \in S!entries
               PROVE  /\ S!PartsOf(k) \subseteq present
                      /\ table_m[k] = S!AllEnabled(k)' \/ Updating(k)'
    BY <1>2, <1>8 DEF EntriesEnabled
  <2>1. CASE x \in S!PartsOf(k)
    BY <1>9, <2>1 DEF SentencesInv, EntriesEnabled, S!equal_range
  <2>2. CASE x \notin S!PartsOf(k)
    <3>1. k \in S!Key
      BY DEF SentencesInv, SentenceTypes
    <3>2. S!AllEnabled(k)' = S!AllEnabled(k)
      BY <1>10, <2>2, <3>1, AllEnabledSame
    <3>3. QED
      BY <1>9, <3>2 DEF SentencesInv, EntriesEnabled
  <2>3. QED
    BY <2>1, <2>2
<1>14. EntriesSwept'
  BY <1>2, <1>8, <1>9 DEF SentencesInv, EntriesSwept, S!Compatible
<1>15. EventsCurrent'
  BY <1>2, <1>8, <1>9 DEF SentencesInv, EventsCurrent, HeardAsTable
<1>16. QED
  BY <1>6, <1>11, <1>12, <1>13, <1>14, <1>15 DEF SentencesInv

LEMMA UpdateEnableStateKeeps ==
    ASSUME SentencesInv, S!update_enable_state
    PROVE  SentencesInv'
<1>1. PICK h : h = Head(frames)
  OBVIOUS
<1>2. /\ frames # <<>> /\ h.op = "update"
      /\ UNCHANGED <<present, part_enabled, meets, unswept, notify_table_m>>
  BY <1>1 DEF S!update_enable_state, S!Loop
<1>3. PICK k \in h.rest :
        /\ S!Goes_on(k)
        /\ table_m' = [table_m EXCEPT ![k] = S!AllEnabled(k)]
        /\ IF table_m[k] = S!AllEnabled(k)
           THEN in_monitor' = FALSE /\ UNCHANGED told
           ELSE S!entry_event(k, S!StateOf(S!AllEnabled(k)))
  BY <1>1 DEF S!update_enable_state
<1>4. PICK g : g = [h EXCEPT !.rest = @ \ {k}]
  OBVIOUS
<1>5. PICK others : others = ToSet(Tail(frames))
  OBVIOUS
<1>6. frames \in Seq(Walk) /\ NestedIn(frames)
  BY DEF SentencesInv, SentenceTypes
<1>7. /\ h \in Walk /\ ToSet(frames) = {h} \cup others
      /\ \A f \in others : f.op # "erase"
  BY <1>1, <1>2, <1>5, <1>6, PopSame
<1>8. g \in Walk /\ g.op = "update" /\ g.of = h.of /\ g.rest = h.rest \ {k}
  BY <1>2, <1>4, <1>7 DEF Walk
<1>9. /\ frames' \in Seq(Walk) /\ NestedIn(frames') /\ ToSet(frames') = {g} \cup others
  <2>1. frames' = <<g>> \o Tail(frames)
    BY <1>1, <1>3, <1>4 DEF S!Goes_on
  <2>2. QED
    BY <1>1, <1>2, <1>5, <1>6, <1>8, <2>1, HeadSame
<1>10. PICK updates : updates = {f \in others : f.op = "update"}
  OBVIOUS
<1>11. /\ Walks("update") = {h} \cup updates /\ Walks("update")' = {g} \cup updates
       /\ Walks("sweep")' = Walks("sweep") /\ Walks("erase") = {} /\ Walks("erase")' = {}
       /\ Walks("remove")' = Walks("remove")
  BY <1>2, <1>7, <1>8, <1>9, <1>10 DEF Walks
<1>12. h.of \in S!Part /\ h.rest \subseteq S!equal_range(h.of)
  BY <1>11 DEF SentencesInv, WalksTable
<1>13. k \in S!entries /\ k \in S!Key /\ h.of \in S!PartsOf(k)
  BY <1>3, <1>12 DEF S!equal_range, SentencesInv, SentenceTypes
<1>14. S!AllEnabled(k) \in BOOLEAN
  BY DEF S!AllEnabled
<1>15. /\ table_m' \in [S!entries -> BOOLEAN] /\ S!entries' = S!entries
       /\ table_m'[k] = S!AllEnabled(k)
       /\ \A j \in S!entries : j # k => table_m'[j] = table_m[j]
  <2>1. table_m \in [S!entries -> BOOLEAN]
    BY DEF SentencesInv, SentenceTypes
  <2>2. S!entries' = S!entries
    BY <1>3 DEF S!entries
  <2>3. QED
    BY <1>3, <1>13, <1>14, <2>1, <2>2
<1>16. \A y : S!equal_range(y)' = S!equal_range(y)
  BY <1>15 DEF S!equal_range
<1>17. \A j : /\ j # k => (Updating(j)' <=> Updating(j))
              /\ InSweep(j)' <=> InSweep(j)
              /\ ~Erasing(j) /\ ~Erasing(j)'
              /\ ToldRemoved(j)' <=> ToldRemoved(j)
  BY <1>8, <1>11, <1>16 DEF Updating, InSweep, Erasing, ToldRemoved
<1>18. ~ToldRemoved(k)
  <2> SUFFICES ASSUME NEW f \in Walks("remove"), k \in S!equal_range(f.of)
               PROVE  FALSE
    BY DEF ToldRemoved
  <2>1. h.of # f.of /\ S!column(h.of) = S!column(f.of)
    BY <1>11 DEF SentencesInv, WalksTable
  <2>2. f.of \in S!PartsOf(k)
    BY DEF S!equal_range
  <2>3. QED
    BY <1>13, <2>1, <2>2, OneOfAColumn
<1>19. /\ told' \in [S!Key -> SentenceState]
       /\ \A j \in S!Key : j # k => told'[j] = told[j]
       /\ k[1] \notin notify_table_m => told'[k] = told[k]
       /\ k[1] \in notify_table_m =>
              told'[k] = IF table_m[k] = S!AllEnabled(k) THEN told[k]
                         ELSE S!StateOf(S!AllEnabled(k))
  <2>1. CASE table_m[k] = S!AllEnabled(k)
    BY <1>3, <2>1 DEF SentencesInv, SentenceTypes
  <2>2. CASE table_m[k] # S!AllEnabled(k)
    <3>1. S!StateOf(S!AllEnabled(k)) \in SentenceState
      BY DEF S!StateOf, SentenceState
    <3>2. S!entry_event(k, S!StateOf(S!AllEnabled(k)))
      BY <1>3, <2>2
    <3>3. QED
      BY <1>13, <2>2, <3>1, <3>2, EntryEvent DEF SentencesInv
  <2>3. QED
    BY <2>1, <2>2
<1>20. SentenceTypes'
  BY <1>2, <1>9, <1>15, <1>19 DEF SentencesInv, SentenceTypes
<1>21. WalksTable'
  BY <1>2, <1>8, <1>11, <1>12, <1>16 DEF SentencesInv, WalksTable
<1>22. EntriesEnabled'
  <2> SUFFICES ASSUME NEW j \in S!entries
               PROVE  /\ S!PartsOf(j) \subseteq present
                      /\ table_m'[j] = S!AllEnabled(j) \/ Updating(j)'
    BY <1>2, <1>15 DEF EntriesEnabled, S!AllEnabled
  <2>1. QED
    BY <1>15, <1>17 DEF SentencesInv, EntriesEnabled
<1>23. EntriesSwept'
  BY <1>2, <1>15, <1>17 DEF SentencesInv, EntriesSwept, S!Compatible
<1>24. EventsCurrent'
  <2> SUFFICES ASSUME NEW j \in S!Key
               PROVE  /\ j[1] \notin notify_table_m => told'[j] = "removed"
                      /\ j[1] \in notify_table_m =>
                            /\ HeardAsTable(j)' \/ ToldRemoved(j)
                            /\ ToldRemoved(j) => told'[j] = "removed"
    BY <1>2, <1>17 DEF EventsCurrent
  <2>1. CASE j = k
    <3>1. j[1] \notin notify_table_m => told'[j] = "removed"
      BY <1>19, <2>1 DEF SentencesInv, EventsCurrent
    <3>2. ASSUME k[1] \in notify_table_m
          PROVE  HeardAsTable(k)'
      <4>1. told[k] \in {"untold", S!StateOf(table_m[k])}
        BY <1>13, <1>17, <1>18, <3>2 DEF SentencesInv, EventsCurrent, HeardAsTable
      <4>2. told'[k] \in {"untold", S!StateOf(S!AllEnabled(k))}
        BY <1>19, <3>2, <4>1
      <4>3. S!StateOf(table_m[k])' = S!StateOf(S!AllEnabled(k))
        BY <1>15 DEF S!StateOf
      <4>4. QED
        BY <1>13, <1>15, <4>2, <4>3 DEF HeardAsTable
    <3>3. QED
      BY <1>18, <2>1, <3>1, <3>2
  <2>2. CASE j # k
    <3>1. HeardAsTable(j)' <=> HeardAsTable(j)
      BY <1>15, <1>19, <2>2 DEF HeardAsTable, S!StateOf
    <3>2. QED
      BY <1>17, <1>19, <2>2, <3>1 DEF SentencesInv, EventsCurrent
  <2>3. QED
    BY <2>1, <2>2
<1>25. QED
  BY <1>9, <1>20, <1>21, <1>22, <1>23, <1>24 DEF SentencesInv

LEMMA SentenceReturnsKeeps ==
    ASSUME SentencesInv, S!returns
    PROVE  SentencesInv'
<1>1. PICK h : h = Head(frames)
  OBVIOUS
<1>2. /\ frames # <<>> /\ h.op \in {"sweep", "update"} /\ h.rest = {}
      /\ frames' = Tail(frames)
      /\ UNCHANGED <<present, part_enabled, meets, unswept, table_m, notify_table_m, told>>
  BY <1>1 DEF S!returns, S!ends
<1>3. frames \in Seq(Walk) /\ NestedIn(frames)
  BY DEF SentencesInv, SentenceTypes
<1>4. /\ frames' \in Seq(Walk) /\ NestedIn(frames') /\ ToSet(frames) = {h} \cup ToSet(frames')
  BY <1>1, <1>2, <1>3, PopSame
<1>5. S!entries' = S!entries /\ \A y : S!equal_range(y)' = S!equal_range(y)
  BY <1>2 DEF S!entries, S!equal_range
<1>6. /\ Walks("remove")' = Walks("remove") /\ Walks("erase")' = Walks("erase")
      /\ Walks("update")' \subseteq Walks("update") /\ Walks("sweep")' \subseteq Walks("sweep")
      /\ \A f \in Walks("update") \cup Walks("sweep") :
             f.rest # {} => f \in Walks("update")' \cup Walks("sweep")'
  BY <1>2, <1>4 DEF Walks
<1>7. \A k : /\ Updating(k)' <=> Updating(k)
             /\ InSweep(k)' <=> InSweep(k)
             /\ Erasing(k)' <=> Erasing(k)
             /\ ToldRemoved(k)' <=> ToldRemoved(k)
  <2>1. \A f \in Walks("update") : f.rest # {} => f \in Walks("update")'
    BY <1>2, <1>4 DEF Walks
  <2>2. \A f \in Walks("sweep") : f.rest # {} => f \in Walks("sweep")'
    BY <1>2, <1>4 DEF Walks
  <2>3. \A k : Updating(k)' <=> Updating(k)
    BY <1>6, <2>1 DEF Updating
  <2>4. \A k : InSweep(k)' <=> InSweep(k)
    BY <1>6, <2>2 DEF InSweep
  <2>5. QED
    BY <1>5, <1>6, <2>3, <2>4 DEF Erasing, ToldRemoved
<1>8. SentenceTypes'
  BY <1>2, <1>4, <1>5 DEF SentencesInv, SentenceTypes
<1>9. WalksTable'
  <2>1. \A k : S!Compatible(k)' <=> S!Compatible(k)
    BY <1>2 DEF S!Compatible
  <2>2. QED
    BY <1>2, <1>5, <1>6, <2>1 DEF SentencesInv, WalksTable
<1>10. EntriesEnabled'
  BY <1>2, <1>5, <1>7 DEF SentencesInv, EntriesEnabled, S!AllEnabled
<1>11. EntriesSwept'
  BY <1>2, <1>5, <1>7 DEF SentencesInv, EntriesSwept, S!Compatible
<1>12. EventsCurrent'
  BY <1>2, <1>5, <1>7 DEF SentencesInv, EventsCurrent, HeardAsTable
<1>13. QED
  BY <1>4, <1>8, <1>9, <1>10, <1>11, <1>12 DEF SentencesInv

------------------------------------------------------------------------------
(* The sentence command system: its theorems *)

LEMMA SentencesStep ==
    ASSUME SentencesInv, S!SentencesNext
    PROVE  SentencesInv'
BY InsertKeeps, EraseKeeps, ChangesKeeps, UpdateKeeps, EnableKeeps, MonitorKeeps,
   ValidationKeeps, EraseEntryKeeps, RemoveEventKeeps, RemoveEndsKeeps,
   UpdateEnableStateKeeps, SentenceReturnsKeeps DEF S!SentencesNext

LEMMA SentencesUnchanged ==
    ASSUME SentencesInv, UNCHANGED sentence_vars
    PROVE  SentencesInv'
<1>1. UNCHANGED <<present, part_enabled, meets, unswept, table_m, notify_table_m, told, frames>>
  BY DEF sentence_vars
<1>2. S!entries' = S!entries /\ \A y : S!equal_range(y)' = S!equal_range(y)
  BY <1>1 DEF S!entries, S!equal_range
<1>3. \A op : Walks(op)' = Walks(op)
  BY <1>1 DEF Walks
<1>4. \A k : /\ S!Compatible(k)' <=> S!Compatible(k)
             /\ S!AllEnabled(k)' = S!AllEnabled(k)
  BY <1>1 DEF S!Compatible, S!AllEnabled
<1>5. \A k : /\ Updating(k)' <=> Updating(k)
             /\ InSweep(k)' <=> InSweep(k)
             /\ Erasing(k)' <=> Erasing(k)
             /\ ToldRemoved(k)' <=> ToldRemoved(k)
  BY <1>2, <1>3 DEF Updating, InSweep, Erasing, ToldRemoved
<1>6. SentenceTypes' /\ NestedIn(frames)'
  BY <1>1, <1>2 DEF SentencesInv, SentenceTypes, NestedIn
<1>7. WalksTable'
  BY <1>1, <1>2, <1>3, <1>4 DEF SentencesInv, WalksTable
<1>8. EntriesEnabled'
  BY <1>1, <1>2, <1>4, <1>5 DEF SentencesInv, EntriesEnabled
<1>9. EntriesSwept'
  BY <1>1, <1>2, <1>4, <1>5 DEF SentencesInv, EntriesSwept
<1>10. EventsCurrent'
  BY <1>1, <1>2, <1>5 DEF SentencesInv, EventsCurrent, HeardAsTable
<1>11. QED
  BY <1>6, <1>7, <1>8, <1>9, <1>10 DEF SentencesInv

LEMMA SentencesStart ==
    ASSUME Init
    PROVE  SentencesInv
<1>1. S!NoSentences
  BY DEF Init, S!Init
<1>2. /\ present = {} /\ part_enabled = [x \in S!Part |-> TRUE]
      /\ meets = [x \in S!Noun |-> FALSE] /\ unswept = {}
      /\ table_m = [k \in {} |-> TRUE] /\ notify_table_m = {}
      /\ told = [k \in S!Key |-> "removed"] /\ frames = <<>>
  BY <1>1 DEF S!NoSentences
<1>3. S!entries = {}
  BY <1>2 DEF S!entries
<1>4. frames \in Seq(Walk) /\ Len(frames) = 0 /\ 1..Len(frames) = {}
  BY <1>2
<1>5. ToSet(frames) = {}
  BY <1>4, ToSetOf
<1>6. \A op : Walks(op) = {}
  BY <1>5 DEF Walks
<1>7. SentenceTypes
  <2>1. table_m \in [S!entries -> BOOLEAN]
    BY <1>2, <1>3
  <2>2. QED
    BY <1>2, <1>3, <1>4, <2>1 DEF SentenceTypes, SentenceState
<1>8. NestedIn(frames)
  BY <1>4 DEF NestedIn
<1>9. WalksTable /\ EntriesEnabled
  BY <1>3, <1>6 DEF WalksTable, EntriesEnabled
<1>10. EntriesSwept
  BY <1>2, KeyParts DEF EntriesSwept
<1>11. EventsCurrent
  BY <1>2 DEF EventsCurrent
<1>12. QED
  BY <1>7, <1>8, <1>9, <1>10, <1>11 DEF SentencesInv

LEMMA SentencesInvariance == Spec => []SentencesInv
<1>1. Init => SentencesInv
  BY SentencesStart
<1>2. SentencesInv /\ [Next]_all_vars => SentencesInv'
  <2> SUFFICES ASSUME SentencesInv, [Next]_all_vars
               PROVE  SentencesInv'
    OBVIOUS
  <2>1. S!SentencesNext \/ UNCHANGED sentence_vars
    BY DEF Next, all_vars
  <2>2. QED
    BY <2>1, SentencesStep, SentencesUnchanged
<1>3. QED
  BY <1>1, <1>2, PTL DEF Spec, all_vars

\* The sentence command system: however monitors enable parts under a sweep, a removal
\* or another update, when the calls have returned the table has an entry for just the
\* compatible parts that are there, enabled if all of its parts are.
THEOREM TableAlwaysCurrent == Spec => []TableIsCurrent
<1>1. SentencesInv => TableIsCurrent
  <2> SUFFICES ASSUME SentencesInv, frames = <<>>
               PROVE  /\ \A k \in S!entries : /\ S!PartsOf(k) \subseteq present
                                              /\ table_m[k] = S!AllEnabled(k)
                      /\ \A k \in S!Key :
                             S!PartsOf(k) \subseteq present /\ S!PartsOf(k) \cap unswept = {} =>
                                 (k \in S!entries <=> S!Compatible(k))
    BY DEF TableIsCurrent, S!TableIsCurrent, S!Client
  <2>1. \A k \in S!entries : S!PartsOf(k) \subseteq present /\ table_m[k] = S!AllEnabled(k)
    BY AtClient DEF SentencesInv, EntriesEnabled
  <2>2. \A k : ~InSweep(k) /\ ~Erasing(k)
    BY AtClient
  <2>3. QED
    BY <2>1, <2>2 DEF SentencesInv, EntriesSwept
<1>2. QED
  BY <1>1, SentencesInvariance, PTL

\* The sentence command system: then also, what a sentence's monitor heard last of each
\* of its entries is how the entry is, or that there is none.
THEOREM MonitorsAlwaysHeardTable == Spec => []MonitorsHeardTable
<1>1. SentencesInv => MonitorsHeardTable
  <2> SUFFICES ASSUME SentencesInv, frames = <<>>
               PROVE  \A k \in S!Key : k[1] \in notify_table_m => HeardAsTable(k)
    BY DEF MonitorsHeardTable, S!MonitorsHeardTable, S!Client, HeardAsTable
  <2>1. QED
    BY AtClient
<1>2. QED
  BY <1>1, SentencesInvariance, PTL

------------------------------------------------------------------------------
(* button_t: its invariant *)

Held(i) == state_set_m[i].modifier_set_m
Bound(i) == state_set_m[i].bind

ButtonTypes ==
    /\ system \in {"win", "mac"} /\ state_set_m \in ButtonStates
    /\ value_m \in [B!States -> ButtonValue] /\ sheet_value \in [Cell -> ButtonValue]
    /\ displays \subseteq B!States

\* A state that has been told of its cell has its value.
StatesCurrent ==
    B!Orderly => \A i \in B!States : i \in displays \/ value_m[i] = sheet_value[Bound(i)]

\* On Windows the title is that of the keys the button knows of, which are those the
\* user holds unless it was not told.
TitleCurrent ==
    system = "win" => title = B!state_for(modifiers_m) /\ (unseen \/ modifiers_m = held)

ButtonInv == part = "button" => ButtonTypes /\ StatesCurrent /\ TitleCurrent /\ B!ButtonFires

------------------------------------------------------------------------------
(* button_t: which state fires *)

LEMMA StatesAre ==
    ASSUME state_set_m \in ButtonStates
    PROVE  /\ Len(state_set_m) \in Nat \ {0} /\ B!States = 1..Len(state_set_m)
           /\ \A i \in B!States : Bound(i) \in Cell /\ state_set_m[i].output \in Cell \cup {no_cell}
<1> DEFINE T == [modifier_set_m : SUBSET Modifier, bind : Cell, output : Cell \cup {no_cell}]
<1>1. state_set_m \in Seq(T) /\ state_set_m # <<>>
  BY CallbacksAssumption DEF B!ButtonAssumption
<1> HIDE DEF T
<1>2. Len(state_set_m) \in Nat \ {0} /\ B!States = 1..Len(state_set_m)
  BY <1>1, LenProperties, EmptySeq DEF B!States
<1>3. \A i \in B!States : state_set_m[i] \in T
  BY <1>1, <1>2, ElementOfSeq
<1>4. QED
  BY <1>2, <1>3 DEF T, Bound

\* The first of a set of states.
LEMMA FirstOf ==
    ASSUME NEW I \in SUBSET Nat, I # {}
    PROVE  B!Min(I) \in I /\ \A i \in I : B!Min(I) <= i
BY LeastNat DEF B!Min

Fit(keys) == {i \in B!States : keys \cap B!modifier_mask_m \subseteq Held(i)}

LEMMA ModifierState ==
    ASSUME state_set_m \in ButtonStates, NEW keys
    PROVE  B!button_modifier_state(keys) = IF Fit(keys) # {} THEN B!Min(Fit(keys)) ELSE 0
BY StatesAre DEF B!button_modifier_state, B!SelectInSeq, Fit, Held

\* A state made for just these keys comes first of those that have them, if the states
\* are listed in order.
LEMMA StateMade ==
    ASSUME state_set_m \in ButtonStates, NEW keys, B!Orderly,
           NEW i \in B!States, Held(i) = keys \cap B!modifier_mask_m
    PROVE  B!state_for(keys) = i
<1>1. B!States \subseteq Nat
  BY StatesAre
<1>2. i \in Fit(keys) /\ Fit(keys) \in SUBSET Nat /\ Fit(keys) # {}
  BY <1>1 DEF Fit
<1> DEFINE j == B!Min(Fit(keys))
<1>3. j \in Fit(keys) /\ j <= i
  BY <1>2, FirstOf
<1>4. B!button_modifier_state(keys) = j
  BY <1>2, ModifierState
<1> HIDE DEF j
<1>5. j \in B!States /\ Held(i) \subseteq Held(j)
  BY <1>3 DEF Fit
<1>6. ~(j < i)
  BY <1>5 DEF B!Orderly, Held
<1>7. j = i /\ i # 0
  BY <1>1, <1>3, <1>5, <1>6, StatesAre
<1>8. QED
  BY <1>4, <1>7 DEF B!state_for

\* Some state fires in any case.
LEMMA StateFound ==
    ASSUME state_set_m \in ButtonStates, NEW keys
    PROVE  B!state_for(keys) \in B!States
<1>1. B!States \subseteq Nat /\ 1 \in B!States /\ 0 \notin B!States
  BY StatesAre
<1>2. Fit({}) # {}
  BY <1>1 DEF Fit
<1>3. \A k : Fit(k) \in SUBSET Nat /\ Fit(k) \subseteq B!States
  BY <1>1 DEF Fit
<1>4. B!button_modifier_state({}) \in B!States
  BY <1>2, <1>3, FirstOf, ModifierState
<1>5. B!button_modifier_state(keys) = 0 \/ B!button_modifier_state(keys) \in B!States
  BY <1>3, FirstOf, ModifierState
<1>6. QED
  BY <1>1, <1>4, <1>5 DEF B!state_for, B!button_default_state

LEMMA MadeForKeys ==
    ASSUME state_set_m \in ButtonStates, NEW keys, B!Orderly, B!MadeFor(keys) # {}
    PROVE  B!state_for(keys) \in B!MadeFor(keys)
<1>1. PICK i \in B!States : Held(i) = keys \cap B!modifier_mask_m
  BY DEF B!MadeFor, Held
<1>2. B!state_for(keys) = i
  BY <1>1, StateMade
<1>3. QED
  BY <1>1, <1>2 DEF B!MadeFor, Held

\* A state finds itself by its own keys.
LEMMA OwnKeys ==
    ASSUME state_set_m \in ButtonStates, B!Orderly, NEW i \in B!States
    PROVE  B!state_for(Held(i)) = i
<1>1. Held(i) \cap B!modifier_mask_m = Held(i)
  BY DEF B!modifier_mask_m, Held
<1>2. QED
  BY <1>1, StateMade

------------------------------------------------------------------------------
(* button_t: the steps *)

LEMMA SameButton ==
    ASSUME UNCHANGED <<system, state_set_m>>
    PROVE  /\ B!States' = B!States /\ (B!Orderly)' = B!Orderly
           /\ \A keys : B!state_for(keys)' = B!state_for(keys)
           /\ \A keys : B!MadeFor(keys)' = B!MadeFor(keys)
           /\ \A i : Held(i)' = Held(i) /\ Bound(i)' = Bound(i)
<1>1. B!States' = B!States /\ B!modifier_mask_m' = B!modifier_mask_m
  BY DEF B!States, B!modifier_mask_m
<1>2. (B!Orderly)' = B!Orderly
  BY <1>1 DEF B!Orderly
<1>3. \A keys : B!button_modifier_state(keys)' = B!button_modifier_state(keys)
  BY <1>1 DEF B!button_modifier_state, B!SelectInSeq
<1>4. \A keys : B!state_for(keys)' = B!state_for(keys)
  BY <1>3 DEF B!state_for, B!button_default_state
<1>5. QED
  BY <1>1, <1>2, <1>4 DEF B!MadeFor, Held, Bound

\* sheet.set and update keep what states that were told have.
LEMMA SheetSet ==
    ASSUME ButtonTypes, StatesCurrent, displays = {}, NEW c \in Cell, NEW v \in ButtonValue,
           B!sheet_set(c, v), UNCHANGED <<system, state_set_m, value_m>>
    PROVE  ButtonTypes' /\ StatesCurrent'
<1>1. /\ B!States' = B!States /\ (B!Orderly)' = B!Orderly
      /\ \A i : Bound(i)' = Bound(i)
  BY SameButton
<1>2. sheet_value' = [sheet_value EXCEPT ![c] = v] /\ sheet_value \in [Cell -> ButtonValue]
  BY DEF ButtonTypes, B!sheet_set
<1>3. displays' = IF sheet_value[c] = v THEN {} ELSE {i \in B!States : Bound(i) = c}
  BY DEF B!sheet_set, Bound
<1>4. \A i \in B!States : Bound(i) \in Cell
  BY StatesAre DEF ButtonTypes
<1>5. ButtonTypes'
  BY <1>1, <1>2, <1>3 DEF ButtonTypes
<1>6. StatesCurrent'
  BY <1>1, <1>2, <1>3, <1>4 DEF StatesCurrent
<1>7. QED
  BY <1>5, <1>6

\* What fires is as the property says.
LEMMA Hit ==
    ASSUME ButtonTypes, StatesCurrent, displays = {}, UNCHANGED <<system, state_set_m, value_m>>,
           NEW i \in B!States, NEW by, NEW knows, B!hit_proc(i, by, knows),
           system = "win" => i = title',
           knows => i = B!state_for(by)
    PROVE  ButtonTypes' /\ StatesCurrent' /\ (B!ButtonFires)'
<1>1. ButtonTypes' /\ StatesCurrent'
  <2>1. CASE state_set_m[i].output = no_cell
    <3>1. UNCHANGED <<sheet_value, displays>>
      BY <2>1 DEF B!hit_proc
    <3>2. QED
      BY <3>1, SameButton DEF ButtonTypes, StatesCurrent
  <2>2. CASE state_set_m[i].output # no_cell
    <3>1. B!sheet_set(state_set_m[i].output, value_m[i])
      BY <2>2 DEF B!hit_proc
    <3>2. state_set_m[i].output \in Cell /\ value_m[i] \in ButtonValue
      BY <2>2, StatesAre DEF ButtonTypes
    <3>3. QED
      BY <3>1, <3>2, SheetSet
  <2>3. QED
    BY <2>1, <2>2
<1>2. /\ fired'.state = i /\ fired'.value = value_m[i] /\ fired'.title = title'
      /\ fired'.held = by /\ fired'.unseen = ~knows /\ fired'.cell = sheet_value[Bound(i)]
  BY DEF B!hit_proc, Bound
<1>3. ASSUME B!Orderly PROVE value_m[i] = sheet_value[Bound(i)]
  BY <1>3 DEF StatesCurrent
<1>4. ASSUME B!Orderly, knows, B!MadeFor(by) # {} PROVE i \in B!MadeFor(by)
  BY <1>4, MadeForKeys DEF ButtonTypes
<1>5. /\ (B!Orderly)' = B!Orderly /\ B!MadeFor(by)' = B!MadeFor(by)
  BY SameButton
<1>6. B!MadeFor(fired.held)' = B!MadeFor(by)
  BY <1>2, SameButton
<1>7. QED
  BY <1>1, <1>2, <1>3, <1>4, <1>5, <1>6 DEF B!ButtonFires

\* A state is told of its cell.
LEMMA ButtonSet ==
    ASSUME ButtonTypes, StatesCurrent, TitleCurrent, B!ButtonFires, B!set
    PROVE  ButtonTypes' /\ StatesCurrent' /\ TitleCurrent' /\ (B!ButtonFires)'
<1> DEFINE i == B!Min(displays)
           s == B!state_for(Held(i))
<1>1. /\ displays # {} /\ UNCHANGED <<system, state_set_m, sheet_value, held, modifiers_m,
                                      title, unseen, fired>>
      /\ value_m' = [value_m EXCEPT ![s] = sheet_value[Bound(i)]] /\ displays' = displays \ {i}
  BY DEF B!set, B!AtRest, B!made_vars, Held, Bound
<1>2. displays \subseteq B!States /\ B!States \subseteq Nat
  BY StatesAre DEF ButtonTypes
<1>3. i \in displays /\ i \in B!States
  BY <1>1, <1>2, FirstOf
<1>4. s \in B!States /\ (B!Orderly => s = i)
  BY <1>3, StateFound, OwnKeys DEF ButtonTypes
<1>5. sheet_value[Bound(i)] \in ButtonValue
  BY <1>3, StatesAre DEF ButtonTypes
<1> HIDE DEF i, s
<1>6. /\ B!States' = B!States /\ (B!Orderly)' = B!Orderly
      /\ \A keys : B!state_for(keys)' = B!state_for(keys)
      /\ \A keys : B!MadeFor(keys)' = B!MadeFor(keys)
      /\ \A k : Bound(k)' = Bound(k)
  BY <1>1, SameButton
<1>7. ButtonTypes'
  BY <1>1, <1>4, <1>5, <1>6 DEF ButtonTypes
<1>8. StatesCurrent'
  BY <1>1, <1>3, <1>4, <1>6 DEF StatesCurrent, ButtonTypes
<1>9. TitleCurrent'
  BY <1>1, <1>6 DEF TitleCurrent
<1>10. (B!ButtonFires)'
  BY <1>1, <1>6 DEF B!ButtonFires
<1>11. QED
  BY <1>7, <1>8, <1>9, <1>10

\* A step that neither fires nor changes a cell needs only to keep the title current.
LEMMA ButtonQuiet ==
    ASSUME ButtonTypes, StatesCurrent, B!ButtonFires,
           UNCHANGED <<system, state_set_m, value_m, sheet_value, displays, fired>>
    PROVE  ButtonTypes' /\ StatesCurrent' /\ (B!ButtonFires)'
<1>1. /\ B!States' = B!States /\ (B!Orderly)' = B!Orderly
      /\ \A keys : B!MadeFor(keys)' = B!MadeFor(keys)
      /\ \A k : Bound(k)' = Bound(k)
  BY SameButton
<1>2. ButtonTypes'
  BY <1>1 DEF ButtonTypes
<1>3. StatesCurrent'
  BY <1>1 DEF StatesCurrent
<1>4. (B!ButtonFires)'
  BY <1>1 DEF B!ButtonFires
<1>5. QED
  BY <1>2, <1>3, <1>4

\* A key on Windows; the button hears of all the keys that are held.
LEMMA KeyWin ==
    ASSUME ButtonTypes, StatesCurrent, B!ButtonFires, displays = {}, system = "win",
           UNCHANGED <<system, state_set_m, value_m>>,
           NEW key, NEW now_held, now_held = held', B!handle_key_win(key, now_held)
    PROVE  ButtonTypes' /\ StatesCurrent' /\ TitleCurrent' /\ (B!ButtonFires)'
<1>1. modifiers_m' = now_held /\ title' = B!state_for(now_held)
  BY DEF B!handle_key_win
<1>2. TitleCurrent'
  BY <1>1, SameButton DEF TitleCurrent
<1>3. CASE B!Fires(key)
  <2>1. B!hit_proc(title', now_held, TRUE)
    BY <1>3 DEF B!handle_key_win
  <2>2. title' \in B!States
    BY <1>1, StateFound DEF ButtonTypes
  <2>3. B!hit_proc(B!state_for(now_held), now_held, TRUE) /\ B!state_for(now_held) \in B!States
    BY <1>1, <2>1, <2>2
  <2>4. QED
    BY <1>1, <1>2, <2>3, Hit
<1>4. CASE ~B!Fires(key)
  BY <1>2, <1>4, ButtonQuiet DEF B!handle_key_win
<1>5. QED
  BY <1>3, <1>4

LEMMA KeyMac ==
    ASSUME ButtonTypes, StatesCurrent, B!ButtonFires, displays = {}, system = "mac",
           UNCHANGED <<system, state_set_m, value_m>>,
           NEW key, NEW now_held, B!handle_key_mac(key, now_held)
    PROVE  ButtonTypes' /\ StatesCurrent' /\ TitleCurrent' /\ (B!ButtonFires)'
<1>1. TitleCurrent'
  BY DEF TitleCurrent
<1>2. CASE B!Fires(key)
  <2>1. B!hit_proc(B!state_for(now_held), now_held, TRUE) /\ B!state_for(now_held) \in B!States
    BY <1>2, StateFound DEF B!handle_key_mac, ButtonTypes
  <2>2. QED
    BY <1>1, <2>1, Hit
<1>3. CASE ~B!Fires(key)
  BY <1>1, <1>3, ButtonQuiet DEF B!handle_key_mac
<1>4. QED
  BY <1>2, <1>3

LEMMA ButtonClick ==
    ASSUME ButtonTypes, StatesCurrent, TitleCurrent, B!ButtonFires,
           B!click_win \/ B!click_mac
    PROVE  ButtonTypes' /\ StatesCurrent' /\ TitleCurrent' /\ (B!ButtonFires)'
<1>1. /\ displays = {} /\ UNCHANGED <<system, state_set_m, value_m, held, modifiers_m, unseen>>
      /\ title' = title
  BY DEF B!click_win, B!click_mac, B!AtRest, B!made_vars
<1>2. TitleCurrent'
  BY <1>1, SameButton DEF TitleCurrent
<1>3. CASE B!click_win
  <2> DEFINE i == B!state_for(modifiers_m)
  <2>1. system = "win" /\ B!hit_proc(i, held, ~unseen)
    BY <1>3 DEF B!click_win
  <2>2. i \in B!States
    BY StateFound DEF ButtonTypes
  <2>3. i = title' /\ (~unseen => i = B!state_for(held))
    BY <1>1, <2>1 DEF TitleCurrent
  <2> HIDE DEF i
  <2>4. QED
    BY <1>1, <1>2, <2>1, <2>2, <2>3, Hit
<1>4. CASE B!click_mac
  <2>1. system = "mac" /\ B!hit_proc(B!state_for(held), held, TRUE)
    BY <1>4 DEF B!click_mac
  <2>2. B!state_for(held) \in B!States
    BY StateFound DEF ButtonTypes
  <2>3. QED
    BY <1>1, <1>2, <2>1, <2>2, Hit
<1>5. QED
  BY <1>3, <1>4

LEMMA ButtonStep ==
    ASSUME ButtonTypes, StatesCurrent, TitleCurrent, B!ButtonFires, B!ButtonNext
    PROVE  ButtonTypes' /\ StatesCurrent' /\ TitleCurrent' /\ (B!ButtonFires)'
<1>1. ASSUME NEW c \in Cell, NEW v \in ButtonValue, B!third_party(c, v)
      PROVE  ButtonTypes' /\ StatesCurrent' /\ TitleCurrent' /\ (B!ButtonFires)'
  <2>1. /\ displays = {} /\ B!sheet_set(c, v)
        /\ UNCHANGED <<system, state_set_m, value_m, held, modifiers_m, title, unseen, fired>>
    BY <1>1 DEF B!third_party, B!AtRest, B!made_vars
  <2>2. ButtonTypes' /\ StatesCurrent'
    BY <2>1, SheetSet
  <2>3. TitleCurrent' /\ (B!ButtonFires)'
    BY <2>1, SameButton DEF TitleCurrent, B!ButtonFires
  <2>4. QED
    BY <2>2, <2>3
<1>2. ASSUME NEW make_enabled \in BOOLEAN, B!enable(make_enabled)
      PROVE  ButtonTypes' /\ StatesCurrent' /\ TitleCurrent' /\ (B!ButtonFires)'
  <2>1. /\ UNCHANGED <<system, state_set_m, value_m, sheet_value, displays, fired>>
        /\ UNCHANGED <<held, modifiers_m, title, unseen>>
    BY <1>2 DEF B!enable, B!made_vars
  <2>2. TitleCurrent'
    BY <2>1, SameButton DEF TitleCurrent
  <2>3. QED
    BY <2>1, <2>2, ButtonQuiet
<1>3. ASSUME NEW key, B!dispatch(key)
      PROVE  ButtonTypes' /\ StatesCurrent' /\ TitleCurrent' /\ (B!ButtonFires)'
  <2>1. /\ displays = {} /\ UNCHANGED <<system, state_set_m, value_m>> /\ held = held'
        /\ system = "win" => B!handle_key_win(key, held)
        /\ system = "mac" => B!handle_key_mac(key, held)
    BY <1>3 DEF B!dispatch, B!AtRest, B!made_vars
  <2>2. QED
    BY <2>1, KeyWin, KeyMac DEF ButtonTypes
<1>4. ASSUME NEW m, B!press(m) \/ B!release(m)
      PROVE  ButtonTypes' /\ StatesCurrent' /\ TitleCurrent' /\ (B!ButtonFires)'
  <2>1. displays = {} /\ UNCHANGED <<system, state_set_m, value_m>>
    BY <1>4 DEF B!press, B!release, B!AtRest, B!made_vars
  <2>2. CASE system = "mac"
    <3>1. B!modifier_key_mac(held')
      BY <1>4, <2>2 DEF B!press, B!release
    <3>2. UNCHANGED <<sheet_value, displays, fired>>
      BY <3>1 DEF B!modifier_key_mac
    <3>3. TitleCurrent'
      BY <2>1, <2>2 DEF TitleCurrent
    <3>4. QED
      BY <2>1, <3>2, <3>3, ButtonQuiet
  <2>3. CASE system = "win" /\ B!press(m)
    <3>1. B!handle_key_win("modifier", held')
      BY <2>3 DEF B!press
    <3>2. PICK now : now = held'
      OBVIOUS
    <3>3. B!handle_key_win("modifier", now)
      BY <3>1, <3>2
    <3>4. QED
      BY <2>1, <2>3, <3>2, <3>3, KeyWin
  <2>4. CASE system = "win" /\ B!release(m)
    <3>1. unseen' = TRUE /\ UNCHANGED <<title, modifiers_m, sheet_value, displays, fired>>
      BY <2>4 DEF B!release
    <3>2. TitleCurrent'
      BY <2>1, <3>1, SameButton DEF TitleCurrent
    <3>3. QED
      BY <2>1, <3>1, <3>2, ButtonQuiet
  <2>5. QED
    BY <1>4, <2>2, <2>3, <2>4 DEF ButtonTypes
<1>5. ASSUME NEW keys, B!elsewhere(keys)
      PROVE  ButtonTypes' /\ StatesCurrent' /\ TitleCurrent' /\ (B!ButtonFires)'
  <2>1. /\ UNCHANGED <<system, state_set_m, value_m, sheet_value, displays, fired>>
        /\ unseen' = TRUE /\ UNCHANGED <<modifiers_m, title>>
    BY <1>5 DEF B!elsewhere, B!made_vars
  <2>2. TitleCurrent'
    BY <2>1, SameButton DEF TitleCurrent
  <2>3. QED
    BY <2>1, <2>2, ButtonQuiet
<1>6. QED
  BY <1>1, <1>2, <1>3, <1>4, <1>5, ButtonSet, ButtonClick DEF B!ButtonNext

LEMMA ButtonStart ==
    ASSUME B!Init
    PROVE  ButtonTypes /\ StatesCurrent /\ TitleCurrent /\ B!ButtonFires
<1>1. /\ system \in {"win", "mac"} /\ state_set_m \in ButtonStates
      /\ sheet_value \in [Cell -> ButtonValue] /\ displays = B!States /\ fired = unfired
      /\ modifiers_m = {} /\ unseen = (held # {}) /\ title = B!button_default_state
  BY DEF B!Init
<1>2. PICK v \in ButtonValue : value_m = [i \in B!States |-> v]
  BY DEF B!Init
<1>3. ButtonTypes
  BY <1>1, <1>2 DEF ButtonTypes
<1>4. TitleCurrent
  BY <1>1 DEF TitleCurrent, B!state_for, B!button_default_state
<1>5. QED
  BY <1>1, <1>3, <1>4 DEF StatesCurrent, B!ButtonFires

LEMMA ButtonInvariance == Spec => []ButtonInv
<1>1. Init => ButtonInv
  BY ButtonStart DEF Init, ButtonInv
<1>2. ButtonInv /\ [Next]_all_vars => ButtonInv'
  <2> SUFFICES ASSUME ButtonInv, [Next]_all_vars, part' = "button"
               PROVE  ButtonTypes' /\ StatesCurrent' /\ TitleCurrent' /\ (B!ButtonFires)'
    BY DEF ButtonInv
  <2>1. part = "button" /\ (B!ButtonNext \/ UNCHANGED button_vars)
    BY DEF Next, all_vars
  <2>2. ButtonTypes /\ StatesCurrent /\ TitleCurrent /\ B!ButtonFires
    BY <2>1 DEF ButtonInv
  <2>3. CASE B!ButtonNext
    BY <2>2, <2>3, ButtonStep
  <2>4. CASE UNCHANGED button_vars
    <3>1. UNCHANGED <<system, state_set_m, value_m, sheet_value, displays, held, modifiers_m,
                      title, unseen, fired>>
      BY <2>4 DEF button_vars
    <3>2. TitleCurrent'
      BY <2>2, <3>1, SameButton DEF TitleCurrent
    <3>3. QED
      BY <2>2, <3>1, <3>2, ButtonQuiet
  <2>5. QED
    BY <2>1, <2>3, <2>4
<1>3. QED
  BY <1>1, <1>2, PTL DEF Spec, all_vars

\* button_t: if its states are listed in order, what fires is the state made for the keys
\* the user holds, with the value its cell had, and on Windows the one whose title is
\* shown; excepted is what a button was not told.
THEOREM ButtonAlwaysFires == Spec => []ButtonFires
<1>1. ButtonInv => ButtonFires
  BY DEF ButtonInv, ButtonFires
<1>2. QED
  BY <1>1, ButtonInvariance, PTL

------------------------------------------------------------------------------
(* The widgets: their invariant *)

\* The calls that set nothing.
Harmless == {"enable", "display", "reset", "layout", "clear"}
WidgetCall ==
    [op : Harmless \cup {"changed", "set", "throw"}, i : DOMAIN bound, v : W!Value]

DueIn(s, op) == {c.i : c \in {d \in ToSet(s) : d.op = op}}
Due(op) == DueIn(calls_due, op)

WidgetFields == {"last", "position", "shown", "custom", "flag", "live"}

WidgetTypes ==
    /\ platform \in {"win", "mac"} /\ bound \in Bindings
    /\ DOMAIN widget = DOMAIN bound /\ \A i \in DOMAIN bound : DOMAIN widget[i] = WidgetFields
    /\ \A i \in DOMAIN bound : bound[i] = "popup" => widget[i].last \in W!Value
    /\ shared_cell \in W!CellValue /\ items \in W!Menus
    /\ calls_due \in Seq(WidgetCall)

\* Which widgets have the cell's value for the one they remember, when they have been told.
Remembers(i) == \/ bound[i] \in {"toggle", "reveal", "popup", "link"}
                \/ platform = "win" /\ bound[i] \in {"checkbox", "radio_button"}

\* Which do nothing when they are told the value they remember.
Skips(i) == \/ bound[i] \in {"radio_button", "toggle", "reveal", "edit_text"}
            \/ platform = "win" /\ bound[i] = "checkbox"

Consistent(i, w) == w.shown = W!Shows(i, w.last, w.live)

\* What is true of a widget when the cell is c; whether it may differ (odd), is stuck
\* (dead), is still to be displayed to (told_later) or to have its menu reset
\* (reset_later).
AgreesLater(i, w, c, odd, dead, told_later, reset_later) ==
    told_later \/ reset_later \/ odd \/ dead \/ W!Agrees(i, w, c)
RemembersCell(i, w, c, told_later) == Remembers(i) => told_later \/ w.last = c
ShowsRemembered(i, w, c, odd, told_later) ==
    /\ Skips(i) => odd \/ Consistent(i, w) \/ (told_later /\ w.last # c)
    /\ bound[i] = "link" => told_later \/ Consistent(i, w)
    /\ bound[i] = "radio_button" /\ platform = "win" => Consistent(i, w)
SliderPlaced(i, w, c, odd, told_later) ==
    bound[i] = "slider" =>
        /\ told_later \/ w.position = W!find(c)
        /\ odd \/ w.position # W!find(c) \/ w.shown = W!find(c)
CustomChosen(i, w, c, odd, told_later, reset_later) ==
    bound[i] = "popup" /\ ~reset_later /\ w.custom =>
        /\ told_later \/ ~W!Contains(items, c)
        /\ (odd /\ items # <<>>) \/ W!Contains(items, c) \/ w.shown = 0
TabUnheard(i, w, c, odd, dead) ==
    bound[i] = "tab_group" /\ w.flag => odd \/ dead \/ W!Agrees(i, w, c)

Good(i, w, c, odd, dead, told_later, reset_later) ==
    /\ AgreesLater(i, w, c, odd, dead, told_later, reset_later)
    /\ RemembersCell(i, w, c, told_later)
    /\ ShowsRemembered(i, w, c, odd, told_later)
    /\ SliderPlaced(i, w, c, odd, told_later)
    /\ CustomChosen(i, w, c, odd, told_later, reset_later)
    /\ TabUnheard(i, w, c, odd, dead)

AllGood ==
    \A i \in DOMAIN bound :
        Good(i, widget[i], shared_cell, i \in stray, i \in stuck,
             i \in Due("display"), i \in Due("reset"))

AllLive ==
    \A i \in DOMAIN bound :
        i \in Due("enable") \/ bound[i] \in {"reveal", "popup"} \/ widget[i].live = enabled

\* A control whose user has acted, before its handler is called.
Acted(i, w, odd) ==
    /\ bound[i] # "edit_text"
    /\ bound[i] = "checkbox" /\ platform = "mac" => w.shown \in {"checked", "unchecked"}
    /\ bound[i] = "radio_button" /\ platform = "mac" => w.shown = "checked"
    /\ bound[i] = "tab_group" => w.shown \in {1, 2} /\ odd
    /\ bound[i] = "slider" => w.shown \in {0, 1}
    /\ bound[i] = "popup" => w.shown \in DOMAIN items \cup {0}

\* A widget whose handler asks for v, when the cell is c: if it is granted and v is
\* displayed to no one, the widget shows v.
Asking(i, w, c, v, odd) ==
    CASE bound[i] \in {"toggle", "reveal"} \/ (bound[i] = "checkbox" /\ platform = "win") -> v # c
      [] bound[i] = "link" \/ (bound[i] = "radio_button" /\ platform = "win") -> TRUE
      [] OTHER -> /\ w.shown = W!Shows(i, v, w.live)
                  /\ bound[i] \in {"radio_button", "edit_text"} => w.last = v
                  /\ bound[i] = "popup" => W!Contains(items, v)
                  /\ bound[i] = "tab_group" => odd

\* The forms of what is left of a gesture or of a change of the sheet.
OnlyHarmless(s) == \A c \in ToSet(s) : c.op \in Harmless
Displaying == OnlyHarmless(calls_due) /\ writes \in {0, 1}
ToldByControl ==
    /\ calls_due # <<>> /\ Head(calls_due).op = "changed" /\ OnlyHarmless(Tail(calls_due))
    /\ bound[Head(calls_due).i] = "popup"
           \/ (bound[Head(calls_due).i] = "tab_group" /\ platform = "mac")
    /\ widget[Head(calls_due).i].flag /\ writes \in {0, 1}
ToldByUser ==
    /\ calls_due # <<>> /\ Head(calls_due).op = "changed" /\ Tail(calls_due) = <<>>
    /\ Acted(Head(calls_due).i, widget[Head(calls_due).i], Head(calls_due).i \in stray)
    /\ writes = 0
AskingModel ==
    /\ calls_due # <<>> /\ Head(calls_due).op = "set"
    /\ \A c \in ToSet(Tail(calls_due)) : c.op = "clear" /\ c.i = Head(calls_due).i
    /\ Asking(Head(calls_due).i, widget[Head(calls_due).i], shared_cell, Head(calls_due).v,
              Head(calls_due).i \in stray)
    /\ writes = 0
\* The window is laid out when all has been displayed.
LayoutLast(s) ==
    \A j, k \in DOMAIN s : s[j].op = "layout" /\ j < k => s[k].op = "clear"
Throwing ==
    /\ calls_due # <<>> /\ Head(calls_due).op = "throw" /\ Tail(calls_due) = <<>> /\ writes = 0

CallsOnlyCell ==
    \A c \in ToSet(calls_due) :
        /\ c.op = "display" => c.v = shared_cell
        /\ c.op = "reset" => bound[c.i] = "popup"
FlagsDue ==
    \A i \in DOMAIN bound :
        bound[i] = "tab_group" /\ widget[i].flag => i \in stuck \/ i \in Due("clear")

WidgetInv ==
    /\ WidgetTypes
    /\ Displaying \/ ToldByControl \/ ToldByUser \/ AskingModel \/ Throwing
    /\ LayoutLast(calls_due) /\ CallsOnlyCell /\ FlagsDue /\ AllLive /\ AllGood

WidgetsOk == IF part = "widgets" THEN WidgetInv ELSE WidgetsIdle

------------------------------------------------------------------------------
(* The widgets: what they show *)

LEMMA WidgetConstants ==
    /\ none \notin {0, 2, 3} /\ W!On = 0 /\ W!Off = 3 /\ W!Other = 2
    /\ W!Value = {none, 0, 3, 2} /\ W!On # W!Off
    /\ \A b \in Bindings : /\ b \in Seq(W!Kind)
                           /\ \A i \in DOMAIN b : b[i] = "radio_button" => i \in {1, 2}
BY CallbacksAssumption DEF W!BindingsAssumption, W!On, W!Off, W!Other, W!Value

LEMMA LeastOfTwo ==
    ASSUME NEW a \in Nat, NEW b \in Nat
    PROVE  W!Min({a, b}) = IF a <= b THEN a ELSE b
<1> DEFINE P(x) == x \in {a, b} /\ \A y \in {a, b} : x <= y
<1>1. \A x : P(x) => x = (IF a <= b THEN a ELSE b)
  OBVIOUS
<1>2. P(IF a <= b THEN a ELSE b)
  OBVIOUS
<1>3. W!Min({a, b}) = CHOOSE x : P(x)
  BY DEF W!Min
<1>4. QED
  BY <1>1, <1>2, <1>3

LEMMA GreatestWithOne ==
    ASSUME NEW a \in {1, 2}
    PROVE  W!Max({a, 1}) = a
<1> DEFINE P(x) == x \in {a, 1} /\ \A y \in {a, 1} : x >= y
<1>1. P(a) /\ \A x : P(x) => x = a
  OBVIOUS
<1>2. W!Max({a, 1}) = CHOOSE x : P(x)
  BY DEF W!Max
<1>3. QED
  BY <1>1, <1>2

LEMMA SliderSteps ==
    /\ W!at(0) = 0 /\ W!at(1) = 3 /\ W!find(0) = 0 /\ W!find(3) = 1 /\ W!find(2) = 1
<1>1. /\ (0 * (3 - 0)) \div 1 + 0 = 0 /\ (1 * (3 - 0)) \div 1 + 0 = 3
      /\ (2 * 1 * (0 - 0) + (3 - 0)) \div (2 * (3 - 0)) = 0
      /\ (2 * 1 * (3 - 0) + (3 - 0)) \div (2 * (3 - 0)) = 1
      /\ (2 * 1 * (2 - 0) + (3 - 0)) \div (2 * (3 - 0)) = 1
  OBVIOUS
<1>2. /\ W!Min({3, 0}) = 0 /\ W!Min({3, 3}) = 3 /\ W!Min({1, 0}) = 0 /\ W!Min({1, 1}) = 1
  BY LeastOfTwo
<1>3. QED
  BY <1>1, <1>2 DEF W!at, W!find, W!On, W!Off, W!interval_count_m

\* Where a value is in a menu, or among the tabs.
LEMMA IndexAt ==
    ASSUME NEW s \in W!Menus, NEW v
    PROVE  /\ ~W!Contains(s, v) => W!Index(s, v) = 0
           /\ \A k \in DOMAIN s : s[k] = v => W!Index(s, v) = k /\ W!Contains(s, v)
<1>1. \/ s = <<>> \/ s = <<0, 3>> \/ s = <<3>>
  BY WidgetConstants DEF W!Menus
<1>2. /\ Len(s) \in Nat /\ DOMAIN s = 1..Len(s)
      /\ \A j, k \in DOMAIN s : s[j] = s[k] => j = k
  BY <1>1
<1> DEFINE I == {k \in 1..Len(s) : s[k] = v}
<1>3. W!Index(s, v) = IF I # {} THEN W!Min(I) ELSE 0
  BY DEF W!Index, W!SelectInSeq
<1>4. ~W!Contains(s, v) <=> I = {}
  BY DEF W!Contains
<1>5. ASSUME NEW k \in DOMAIN s, s[k] = v PROVE W!Index(s, v) = k /\ W!Contains(s, v)
  <2>1. I = {k} /\ k \in Nat
    BY <1>2, <1>5
  <2>2. W!Min({k}) = k
    <3>1. W!Min({k, k}) = k /\ {k, k} = {k}
      BY <2>1, LeastOfTwo
    <3>2. QED
      BY <3>1
  <2>3. QED
    BY <1>3, <1>4, <2>1, <2>2
<1>6. QED
  BY <1>3, <1>4, <1>5

\* The tabs.
LEMMA TabAt ==
    /\ W!Index(<<W!On, W!Off>>, W!On) = 1 /\ W!Index(<<W!On, W!Off>>, W!Off) = 2
<1>1. <<W!On, W!Off>> \in W!Menus /\ DOMAIN <<W!On, W!Off>> = {1, 2}
  BY DEF W!Menus
<1>2. QED
  BY <1>1, IndexAt

\* What a control of each kind shows.
LEMMA ShowsBy ==
    ASSUME NEW i, NEW v, NEW live
    PROVE  /\ bound[i] = "checkbox" =>
                  W!Shows(i, v, live) = IF v = W!On THEN "checked"
                                        ELSE IF v = W!Off THEN "unchecked" ELSE "mixed"
           /\ bound[i] = "radio_button" =>
                  W!Shows(i, v, live) = IF v = <<W!On, W!Off>>[i] THEN "checked" ELSE "unchecked"
           /\ bound[i] = "toggle" =>
                  W!Shows(i, v, live) = IF ~live THEN "disabled" ELSE IF v = W!On THEN "on" ELSE "off"
           /\ bound[i] = "reveal" =>
                  W!Shows(i, v, live) = IF v = W!On THEN "showing" ELSE "hidden"
           /\ bound[i] = "link" =>
                  W!Shows(i, v, live) = IF v = W!On /\ live THEN "visible" ELSE "hidden"
           /\ bound[i] = "slider" => W!Shows(i, v, live) = W!find(v)
           /\ bound[i] = "popup" => W!Shows(i, v, live) = W!Index(items, v)
           /\ bound[i] = "tab_group" => W!Shows(i, v, live) = W!Index(<<W!On, W!Off>>, v)
           /\ bound[i] = "edit_text" => W!Shows(i, v, live) = v
BY DEF W!Shows

\* Of most kinds it does not depend on whether the control is enabled.
LEMMA ShowsAlways ==
    ASSUME NEW i, bound[i] \in W!Kind \ {"toggle", "link"}, NEW v, NEW a, NEW b
    PROVE  W!Shows(i, v, a) = W!Shows(i, v, b)
BY ShowsBy DEF W!Kind

------------------------------------------------------------------------------
(* The widgets: what keeps each good *)

\* What display does to a widget of each kind, and the calls its control makes.
SkipsAt(i) == \/ bound[i] \in {"radio_button", "toggle", "reveal"}
              \/ platform = "win" /\ bound[i] \in {"checkbox", "edit_text"}

LEMMA OnWin == platform \in {"win", "mac"} => (W!win <=> platform = "win") /\ (~W!win <=> platform = "mac")
BY DEF W!win

LEMMA DisplaySkipping ==
    ASSUME NEW i, NEW w, NEW v, platform \in {"win", "mac"}, SkipsAt(i)
    PROVE  W!display(i, w, v) = <<W!Displays(i, w, v), <<>>>>
BY OnWin DEF SkipsAt, W!display, W!Quietly, W!checkbox_display_win, W!radio_display_win,
   W!radio_display_mac, W!toggle_display_win, W!toggle_display_mac, W!reveal_display_win,
   W!reveal_display_mac, W!edit_text_display_win

LEMMA DisplayText ==
    ASSUME NEW i, NEW w, NEW v, platform = "mac", bound[i] = "edit_text"
    PROVE  W!display(i, w, v) = <<W!edit_text_display_mac(i, w, v), <<>>>>
BY OnWin DEF W!display, W!Quietly

LEMMA DisplayCheckbox ==
    ASSUME NEW i, NEW w, NEW v, platform = "mac", bound[i] = "checkbox"
    PROVE  W!display(i, w, v) = <<[w EXCEPT !.shown = W!Shows(i, v, w.live)], <<>>>>
BY OnWin DEF W!display, W!Quietly, W!checkbox_display_mac

LEMMA DisplayLink ==
    ASSUME NEW i, NEW w, NEW v, platform \in {"win", "mac"}, bound[i] = "link"
    PROVE  W!display(i, w, v) = <<W!link_display_win(i, w, v), <<>>>>
BY OnWin DEF W!display, W!Quietly, W!link_display_win, W!link_display_mac

LEMMA DisplaySlider ==
    ASSUME NEW i, NEW w, NEW v, platform \in {"win", "mac"}, bound[i] = "slider"
    PROVE  W!display(i, w, v) = <<W!slider_display_win(i, w, v), <<>>>>
BY OnWin DEF W!display, W!Quietly, W!slider_display_mac

LEMMA DisplayTabWin ==
    ASSUME NEW i, NEW w, NEW v, platform = "win", bound[i] = "tab_group"
    PROVE  W!display(i, w, v) = <<W!tab_display_win(i, w, v), <<>>>>
BY OnWin DEF W!display, W!Quietly

LEMMA DisplayTabMac ==
    ASSUME NEW i, NEW w, NEW v, platform = "mac", bound[i] = "tab_group"
    PROVE  W!display(i, w, v) = W!tab_display_mac(i, w, v)
BY OnWin DEF W!display

LEMMA DisplayPopup ==
    ASSUME NEW i, NEW w, NEW v, platform \in {"win", "mac"}, bound[i] = "popup"
    PROVE  W!display(i, w, v) = W!popup_display_win(i, w, v)
BY OnWin DEF W!display, W!popup_display_mac

\* The two calls a control makes when it is changed.
OwnCalls(i, v) == <<W!Call("changed", i, v), W!Call("clear", i, v)>>

\* The fields these leave.
LEMMA TextFields ==
    ASSUME NEW i, NEW w, NEW v, DOMAIN w = WidgetFields
    PROVE  /\ DOMAIN W!edit_text_display_mac(i, w, v) = WidgetFields
           /\ W!edit_text_display_mac(i, w, v).live = w.live
           /\ W!edit_text_display_mac(i, w, v).last = v
           /\ w.last = v => W!edit_text_display_mac(i, w, v) = w
           /\ w.last # v => W!edit_text_display_mac(i, w, v).shown = W!Shows(i, v, w.live)
BY DEF W!edit_text_display_mac, W!Displays, WidgetFields

LEMMA LinkFields ==
    ASSUME NEW i, NEW w, NEW v, DOMAIN w = WidgetFields
    PROVE  /\ DOMAIN W!link_display_win(i, w, v) = WidgetFields
           /\ W!link_display_win(i, w, v).live = w.live
           /\ W!link_display_win(i, w, v).last = v
           /\ W!link_display_win(i, w, v).shown = W!Shows(i, v, w.live)
BY DEF W!link_display_win, WidgetFields

LEMMA SliderFields ==
    ASSUME NEW i, NEW w, NEW v, DOMAIN w = WidgetFields
    PROVE  /\ DOMAIN W!slider_display_win(i, w, v) = WidgetFields
           /\ W!slider_display_win(i, w, v).live = w.live
           /\ W!slider_display_win(i, w, v).position = W!find(v)
           /\ W!slider_display_win(i, w, v).shown =
                  IF W!find(v) = w.position THEN w.shown ELSE W!find(v)
BY DEF W!slider_display_win, WidgetFields

LEMMA TabWinFields ==
    ASSUME NEW i, NEW w, NEW v, DOMAIN w = WidgetFields
    PROVE  /\ DOMAIN W!tab_display_win(i, w, v) = WidgetFields
           /\ W!tab_display_win(i, w, v).live = w.live /\ W!tab_display_win(i, w, v).flag = w.flag
           /\ v \in {W!On, W!Off} => W!tab_display_win(i, w, v).shown = W!Shows(i, v, w.live)
BY DEF W!tab_display_win, WidgetFields

LEMMA TabMacFields ==
    ASSUME NEW i, NEW w, NEW v, DOMAIN w = WidgetFields
    PROVE  /\ w.flag \/ v \notin {W!On, W!Off} => W!tab_display_mac(i, w, v) = <<w, <<>>>>
           /\ ~w.flag /\ v \in {W!On, W!Off} =>
                  /\ DOMAIN W!tab_display_mac(i, w, v)[1] = WidgetFields
                  /\ W!tab_display_mac(i, w, v)[1].live = w.live
                  /\ W!tab_display_mac(i, w, v)[1].flag
                  /\ W!tab_display_mac(i, w, v)[1].shown = W!Shows(i, v, w.live)
                  /\ W!tab_display_mac(i, w, v)[2] = OwnCalls(i, v)
BY DEF W!tab_display_mac, W!Quietly, WidgetFields, OwnCalls

LEMMA PopupFields ==
    ASSUME NEW i, NEW w, NEW v, DOMAIN w = WidgetFields
    PROVE  /\ DOMAIN W!popup_display_win(i, w, v)[1] = WidgetFields
           /\ W!popup_display_win(i, w, v)[1].live = w.live
           /\ W!popup_display_win(i, w, v)[1].last = v
           /\ W!Contains(items, v) =>
                  /\ ~W!popup_display_win(i, w, v)[1].custom
                  /\ W!popup_display_win(i, w, v)[1].shown = W!Index(items, v)
           /\ ~W!Contains(items, v) =>
                  /\ W!popup_display_win(i, w, v)[1].custom
                  /\ W!popup_display_win(i, w, v)[1].shown = IF w.custom THEN w.shown ELSE 0
           /\ \/ W!popup_display_win(i, w, v)[2] = <<>>
              \/ /\ W!popup_display_win(i, w, v)[2] = OwnCalls(i, v)
                 /\ W!popup_display_win(i, w, v)[1].flag
<1>1. CASE W!Contains(items, v)
  BY <1>1 DEF W!popup_display_win, WidgetFields, OwnCalls
<1>2. CASE ~W!Contains(items, v)
  BY <1>2 DEF W!popup_display_win, W!popup_display_custom, W!Quietly, WidgetFields, OwnCalls
<1>3. QED
  BY <1>1, <1>2

\* What is left of a widget after it was displayed to, and what its control calls.
Told(i, w, v, r) ==
    /\ DOMAIN r[1] = WidgetFields /\ r[1].live = w.live
    /\ \/ r[2] = <<>> /\ (bound[i] = "tab_group" => r[1].flag = w.flag)
       \/ /\ r[2] = OwnCalls(i, v) /\ r[1].flag
          /\ bound[i] = "popup" \/ (bound[i] = "tab_group" /\ platform = "mac")

LEMMA DisplayTells ==
    ASSUME NEW i, NEW w, NEW v, platform \in {"win", "mac"}, bound[i] \in W!Kind,
           DOMAIN w = WidgetFields
    PROVE  Told(i, w, v, W!display(i, w, v))
<1>1. CASE SkipsAt(i)
  <2>1. /\ DOMAIN W!Displays(i, w, v) = WidgetFields
        /\ W!Displays(i, w, v).live = w.live /\ W!Displays(i, w, v).flag = w.flag
    BY DEF W!Displays, WidgetFields
  <2>2. QED
    BY <1>1, <2>1, DisplaySkipping DEF Told
<1>2. CASE bound[i] = "edit_text" /\ platform = "mac"
  BY <1>2, DisplayText, TextFields DEF Told
<1>3. CASE bound[i] = "checkbox" /\ platform = "mac"
  BY <1>3, DisplayCheckbox DEF Told, WidgetFields
<1>4. CASE bound[i] = "link"
  BY <1>4, DisplayLink, LinkFields DEF Told
<1>5. CASE bound[i] = "slider"
  BY <1>5, DisplaySlider, SliderFields DEF Told
<1>6. CASE bound[i] = "tab_group" /\ platform = "win"
  BY <1>6, DisplayTabWin, TabWinFields DEF Told
<1>7. CASE bound[i] = "tab_group" /\ platform = "mac"
  BY <1>7, DisplayTabMac, TabMacFields DEF Told
<1>8. CASE bound[i] = "popup"
  BY <1>8, DisplayPopup, PopupFields DEF Told
<1>9. QED
  BY <1>1, <1>2, <1>3, <1>4, <1>5, <1>6, <1>7, <1>8 DEF W!Kind, SkipsAt

\* A widget that is told the value of its cell is good, and no longer odd if it agrees.
LEMMA GoodDisplayed ==
    ASSUME NEW i, NEW w, NEW c, NEW odd \in BOOLEAN, NEW dead \in BOOLEAN, NEW later \in BOOLEAN,
           platform \in {"win", "mac"}, bound[i] \in W!Kind, items \in W!Menus,
           DOMAIN w = WidgetFields, Good(i, w, c, odd, dead, TRUE, later), NEW r,
           r = W!display(i, w, c)[1]
    PROVE  Good(i, r, c, odd /\ ~W!Agrees(i, r, c), dead, FALSE, later)
<1> DEFINE still == odd /\ ~W!Agrees(i, r, c)
<1>1. CASE SkipsAt(i)
  <2>1. r = W!Displays(i, w, c)
    BY <1>1, DisplaySkipping
  <2>2. r.last = c /\ r.live = w.live /\ (w.last # c => Consistent(i, r))
        /\ (w.last = c => r = w)
    BY <2>1 DEF W!Displays, WidgetFields, Consistent
  <2>3. Skips(i) /\ bound[i] \notin {"link", "slider", "popup", "tab_group"}
    BY <1>1 DEF SkipsAt, Skips
  <2>4. still \/ Consistent(i, r)
    BY <2>2, <2>3 DEF Good, ShowsRemembered, W!Agrees, Consistent
  <2>5. Consistent(i, r) => W!Agrees(i, r, c)
    BY <2>2 DEF Consistent, W!Agrees
  <2>6. bound[i] = "radio_button" /\ platform = "win" => Consistent(i, r)
    BY <2>2 DEF Good, ShowsRemembered
  <2> HIDE DEF still
  <2>7. Good(i, r, c, still, dead, FALSE, later)
    BY <2>2, <2>3, <2>4, <2>5, <2>6
       DEF Good, AgreesLater, RemembersCell, ShowsRemembered, SliderPlaced, CustomChosen, TabUnheard
  <2>8. QED
    BY <2>7 DEF still
<1>2. CASE bound[i] = "edit_text" /\ platform = "mac"
  <2>1. r = W!edit_text_display_mac(i, w, c)
    BY <1>2, DisplayText
  <2>2. r.last = c /\ (w.last # c => Consistent(i, r)) /\ (w.last = c => r = w)
    BY <2>1, TextFields DEF Consistent
  <2>3. still \/ Consistent(i, r)
    BY <1>2, <2>2 DEF Good, ShowsRemembered, Skips, W!Agrees, Consistent
  <2>4. Consistent(i, r) => W!Agrees(i, r, c)
    BY <2>2 DEF Consistent, W!Agrees
  <2> HIDE DEF still
  <2>5. Good(i, r, c, still, dead, FALSE, later)
    BY <1>2, <2>2, <2>3, <2>4
       DEF Good, AgreesLater, RemembersCell, ShowsRemembered, SliderPlaced, CustomChosen,
           TabUnheard, Remembers
  <2>6. QED
    BY <2>5 DEF still
<1>3. CASE bound[i] = "checkbox" /\ platform = "mac"
  <2>1. r.shown = W!Shows(i, c, r.live)
    BY <1>3, DisplayCheckbox DEF WidgetFields
  <2>2. W!Agrees(i, r, c)
    BY <2>1 DEF W!Agrees
  <2>3. QED
    BY <1>3, <2>2
       DEF Good, AgreesLater, RemembersCell, ShowsRemembered, SliderPlaced, CustomChosen,
           TabUnheard, Remembers, Skips
<1>4. CASE bound[i] = "link"
  <2>1. r.last = c /\ Consistent(i, r) /\ W!Agrees(i, r, c)
    BY <1>4, DisplayLink, LinkFields DEF Consistent, W!Agrees
  <2>2. QED
    BY <1>4, <2>1
       DEF Good, AgreesLater, RemembersCell, ShowsRemembered, SliderPlaced, CustomChosen,
           TabUnheard, Skips
<1>5. CASE bound[i] = "slider"
  <2>1. /\ r.position = W!find(c)
        /\ r.shown = IF W!find(c) = w.position THEN w.shown ELSE W!find(c)
    BY <1>5, DisplaySlider, SliderFields
  <2>2. W!Agrees(i, r, c) <=> r.shown = W!find(c)
    BY <1>5, ShowsBy DEF W!Agrees
  <2>3. odd \/ W!Agrees(i, r, c)
    BY <1>5, <2>1, <2>2 DEF Good, SliderPlaced
  <2>4. QED
    BY <1>5, <2>1, <2>2, <2>3
       DEF Good, AgreesLater, RemembersCell, ShowsRemembered, SliderPlaced, CustomChosen,
           TabUnheard, Remembers, Skips
<1>6. CASE bound[i] = "tab_group"
  <2>1. W!Agrees(i, r, c) \/ (r = w /\ w.flag)
    <3>1. CASE c \notin {W!On, W!Off}
      BY <1>6, <3>1 DEF W!Agrees
    <3>2. CASE c \in {W!On, W!Off} /\ platform = "win"
      BY <1>6, <3>2, DisplayTabWin, TabWinFields DEF W!Agrees
    <3>3. CASE c \in {W!On, W!Off} /\ platform = "mac"
      BY <1>6, <3>3, DisplayTabMac, TabMacFields DEF W!Agrees
    <3>4. QED
      BY <3>1, <3>2, <3>3
  <2>2. W!Agrees(i, r, c) \/ odd \/ dead
    BY <1>6, <2>1 DEF Good, TabUnheard
  <2>3. QED
    BY <1>6, <2>2
       DEF Good, AgreesLater, RemembersCell, ShowsRemembered, SliderPlaced, CustomChosen,
           TabUnheard, Remembers, Skips
<1>7. CASE bound[i] = "popup"
  <2>1. /\ r.last = c
        /\ W!Contains(items, c) => ~r.custom /\ r.shown = W!Index(items, c)
        /\ ~W!Contains(items, c) => r.custom /\ r.shown = IF w.custom THEN w.shown ELSE 0
    BY <1>7, DisplayPopup, PopupFields
  <2>2. W!Agrees(i, r, c) <=> r.shown = W!Index(items, c) \/ items = <<>>
    BY <1>7, ShowsBy DEF W!Agrees
  <2>3. ~W!Contains(items, c) => W!Index(items, c) = 0
    BY IndexAt
  <2>4. W!Agrees(i, r, c) \/ odd \/ later
    BY <1>7, <2>1, <2>2, <2>3 DEF Good, CustomChosen
  <2>5. CustomChosen(i, r, c, still, FALSE, later)
    BY <1>7, <2>1, <2>2, <2>3 DEF Good, CustomChosen
  <2>6. QED
    BY <1>7, <2>1, <2>4, <2>5
       DEF Good, AgreesLater, RemembersCell, ShowsRemembered, SliderPlaced, TabUnheard, Skips
<1>8. QED
  BY <1>1, <1>2, <1>3, <1>4, <1>5, <1>6, <1>7 DEF W!Kind, SkipsAt

\* Enabling keeps a widget good.
LEMMA GoodEnabled ==
    ASSUME NEW i, NEW w, NEW c, NEW odd \in BOOLEAN, NEW dead \in BOOLEAN,
           NEW sooner \in BOOLEAN, NEW later \in BOOLEAN, NEW b,
           bound[i] \in W!Kind, DOMAIN w = WidgetFields, Good(i, w, c, odd, dead, sooner, later)
    PROVE  /\ Good(i, W!enable(i, w, b), c, odd, dead, sooner, later)
           /\ DOMAIN W!enable(i, w, b) = WidgetFields /\ W!enable(i, w, b).live = b
           /\ W!enable(i, w, b).flag = w.flag /\ W!enable(i, w, b).last = w.last
<1> DEFINE r == W!enable(i, w, b)
<1>1. /\ DOMAIN r = WidgetFields /\ r.live = b /\ r.flag = w.flag
      /\ r.last = w.last /\ r.position = w.position /\ r.custom = w.custom
      /\ r.shown = IF bound[i] \in {"toggle", "link"} THEN W!Shows(i, w.last, b) ELSE w.shown
  BY DEF W!enable, WidgetFields
<1> HIDE DEF r
<1>2. CASE bound[i] \in {"toggle", "link"}
  <2>1. Consistent(i, r)
    BY <1>1, <1>2 DEF Consistent
  <2>2. r.last = c => W!Agrees(i, r, c)
    BY <2>1 DEF Consistent, W!Agrees
  <2>3. Good(i, r, c, odd, dead, sooner, later)
    BY <1>1, <1>2, <2>1, <2>2
       DEF Good, AgreesLater, RemembersCell, ShowsRemembered, SliderPlaced, CustomChosen,
           TabUnheard, Remembers
  <2>4. QED
    BY <1>1, <2>3 DEF r
<1>3. CASE bound[i] \notin {"toggle", "link"}
  <2>1. /\ r.shown = w.shown
        /\ \A v : W!Shows(i, v, r.live) = W!Shows(i, v, w.live)
    BY <1>1, <1>3, ShowsAlways
  <2>2. Consistent(i, r) <=> Consistent(i, w)
    BY <1>1, <2>1 DEF Consistent
  <2>3. W!Agrees(i, r, c) <=> W!Agrees(i, w, c)
    BY <2>1 DEF W!Agrees
  <2>4. Good(i, r, c, odd, dead, sooner, later)
    BY <1>1, <1>3, <2>1, <2>2, <2>3
       DEF Good, AgreesLater, RemembersCell, ShowsRemembered, SliderPlaced, CustomChosen, TabUnheard
  <2>5. QED
    BY <1>1, <2>4 DEF r
<1>4. QED
  BY <1>2, <1>3 DEF r

\* What is left of a popup whose menu was reset.
LEMMA ResetFields ==
    ASSUME NEW i, NEW w, platform \in {"win", "mac"}, bound[i] = "popup", DOMAIN w = WidgetFields
    PROVE  /\ DOMAIN W!reset_menu_item_set(i, w)[1] = WidgetFields
           /\ W!reset_menu_item_set(i, w)[1].last = w.last
           /\ items = <<>> => ~W!reset_menu_item_set(i, w)[1].custom
           /\ items # <<>> /\ W!Contains(items, w.last) =>
                  /\ ~W!reset_menu_item_set(i, w)[1].custom
                  /\ W!reset_menu_item_set(i, w)[1].shown = W!Index(items, w.last)
           /\ items # <<>> /\ ~W!Contains(items, w.last) =>
                  /\ W!reset_menu_item_set(i, w)[1].custom
                  /\ W!reset_menu_item_set(i, w)[1].shown = 0
           /\ \/ W!reset_menu_item_set(i, w)[2] = <<>>
              \/ /\ W!reset_menu_item_set(i, w)[2] = OwnCalls(i, w.last)
                 /\ W!reset_menu_item_set(i, w)[1].flag
<1> DEFINE u == [w EXCEPT !.custom = FALSE, !.live = items # <<>>, !.shown = 1]
<1>1. DOMAIN u = WidgetFields /\ ~u.custom /\ u.last = w.last
  BY DEF WidgetFields
<1>2. W!reset_menu_item_set(i, w) = IF items = <<>> THEN <<u, <<>>>> ELSE W!display(i, u, w.last)
  BY DEF W!reset_menu_item_set, W!Quietly
<1> HIDE DEF u
<1>3. CASE items = <<>>
  BY <1>1, <1>2, <1>3
<1>4. CASE items # <<>>
  <2>1. W!reset_menu_item_set(i, w) = W!popup_display_win(i, u, w.last)
    BY <1>2, <1>4, DisplayPopup
  <2>2. QED
    BY <1>1, <1>4, <2>1, PopupFields
<1>5. QED
  BY <1>3, <1>4

\* A popup that is to have its menu reset, and what it is afterwards.
Resets(i, w, c, odd, dead, sooner, later, r) ==
    /\ platform \in {"win", "mac"} /\ bound[i] = "popup" /\ items \in W!Menus
    /\ odd \in BOOLEAN /\ dead \in BOOLEAN /\ sooner \in BOOLEAN /\ later \in BOOLEAN
    /\ DOMAIN w = WidgetFields /\ Good(i, w, c, odd, dead, sooner, later)
    /\ r = W!reset_menu_item_set(i, w)[1]

LEMMA GoodReset ==
    ASSUME NEW i, NEW w, NEW c, NEW odd, NEW dead, NEW sooner, NEW later, NEW r,
           Resets(i, w, c, odd, dead, sooner, later, r)
    PROVE  Good(i, r, c, odd /\ ~W!Agrees(i, r, c), dead, sooner, FALSE)
<1> USE DEF Resets
<1>1. /\ r.last = w.last
      /\ items = <<>> => ~r.custom
      /\ items # <<>> /\ W!Contains(items, w.last) => ~r.custom /\ r.shown = W!Index(items, w.last)
      /\ items # <<>> /\ ~W!Contains(items, w.last) => r.custom /\ r.shown = 0
  BY ResetFields
<1>2. sooner \/ w.last = c
  BY DEF Good, RemembersCell, Remembers
<1>3. W!Agrees(i, r, c) <=> r.shown = W!Index(items, c) \/ items = <<>>
  BY ShowsBy DEF W!Agrees
<1>4. ~W!Contains(items, w.last) => W!Index(items, w.last) = 0
  BY IndexAt
<1>5. sooner \/ W!Agrees(i, r, c)
  BY <1>1, <1>2, <1>3, <1>4
<1>6. CustomChosen(i, r, c, odd /\ ~W!Agrees(i, r, c), sooner, FALSE)
  BY <1>1, <1>2, <1>3 DEF CustomChosen
<1>7. QED
  BY <1>1, <1>2, <1>5, <1>6
     DEF Good, AgreesLater, RemembersCell, ShowsRemembered, SliderPlaced, TabUnheard, Skips

\* When the cell changes, a widget that was good is good until it is told.
LEMMA GoodUntold ==
    ASSUME NEW i, NEW w, NEW c, NEW new, NEW odd \in BOOLEAN, NEW dead \in BOOLEAN,
           Good(i, w, c, odd, dead, FALSE, FALSE),
           bound[i] = "tab_group" /\ w.flag => odd \/ dead
    PROVE  Good(i, w, new, odd, dead, TRUE, FALSE)
BY DEF Good, AgreesLater, RemembersCell, ShowsRemembered, SliderPlaced, CustomChosen, TabUnheard

\* A widget that asks for v when the cell is c.
Asks(i, w, c, v, odd, dead) ==
    /\ platform \in {"win", "mac"} /\ bound[i] \in W!Kind /\ odd \in BOOLEAN /\ dead \in BOOLEAN
    /\ Good(i, w, c, odd, dead, FALSE, FALSE) /\ Asking(i, w, c, v, odd)

\* It is good when the model grants it, and no longer odd.
LEMMA GoodGranted ==
    ASSUME NEW i, NEW w, NEW c, NEW v, NEW odd, NEW dead, Asks(i, w, c, v, odd, dead)
    PROVE  Good(i, w, v, FALSE, dead, v # c, FALSE)
<1> USE DEF Asks
<1>1. CASE bound[i] \in {"toggle", "reveal"} \/ (bound[i] = "checkbox" /\ platform = "win")
  <2>1. v # c /\ w.last = c
    BY <1>1 DEF Asking, Good, RemembersCell, Remembers
  <2>2. QED
    BY <1>1, <2>1
       DEF Good, AgreesLater, RemembersCell, ShowsRemembered, SliderPlaced, CustomChosen, TabUnheard
<1>2. CASE bound[i] = "link" \/ (bound[i] = "radio_button" /\ platform = "win")
  <2>1. w.last = c /\ Consistent(i, w)
    BY <1>2 DEF Good, RemembersCell, Remembers, ShowsRemembered
  <2>2. W!Agrees(i, w, c)
    BY <2>1 DEF Consistent, W!Agrees
  <2>3. QED
    BY <1>2, <2>1, <2>2
       DEF Good, AgreesLater, RemembersCell, ShowsRemembered, SliderPlaced, CustomChosen, TabUnheard
<1>3. CASE ~(bound[i] \in {"toggle", "reveal", "link"})
           /\ ~(bound[i] \in {"checkbox", "radio_button"} /\ platform = "win")
  <2>1. /\ w.shown = W!Shows(i, v, w.live)
        /\ bound[i] \in {"radio_button", "edit_text"} => w.last = v
        /\ bound[i] = "popup" => W!Contains(items, v)
    BY <1>3 DEF Asking
  <2>2. W!Agrees(i, w, v)
    BY <2>1 DEF W!Agrees
  <2>3. bound[i] \in {"radio_button", "edit_text"} => Consistent(i, w)
    BY <2>1 DEF Consistent
  <2>4. bound[i] = "slider" => w.shown = W!find(v)
    BY <2>1, ShowsBy
  <2>5. SliderPlaced(i, w, v, FALSE, v # c)
    BY <2>4 DEF Good, SliderPlaced
  <2>6. CustomChosen(i, w, v, FALSE, v # c, FALSE)
    BY <2>1 DEF Good, CustomChosen
  <2>7. RemembersCell(i, w, v, v # c)
    BY DEF Good, RemembersCell
  <2>8. ShowsRemembered(i, w, v, FALSE, v # c)
    BY <1>3, <2>3 DEF ShowsRemembered, Skips
  <2>9. QED
    BY <2>2, <2>5, <2>6, <2>7, <2>8 DEF Good, AgreesLater, TabUnheard
<1>4. QED
  BY <1>1, <1>2, <1>3

------------------------------------------------------------------------------
(* The widgets: what the user does *)

\* Only what a control shows changes when the user acts, and on some not even that.
LEMMA MovedFields ==
    ASSUME NEW i, NEW w, platform \in {"win", "mac"}, bound[i] \in W!Kind, DOMAIN w = WidgetFields,
           NEW u \in W!Moved(i, w)
    PROVE  /\ DOMAIN u = WidgetFields /\ u.live = w.live /\ u.flag = w.flag /\ u.last = w.last
           /\ u.position = w.position /\ u.custom = w.custom
           /\ bound[i] # "edit_text"
           /\ bound[i] = "checkbox" /\ platform = "mac" => u.shown \in {"checked", "unchecked"}
           /\ bound[i] = "radio_button" /\ platform = "mac" => u.shown = "checked"
           /\ bound[i] = "tab_group" => u.shown \in {1, 2} /\ u # w
           /\ bound[i] = "slider" => u.shown \in {0, 1}
           /\ bound[i] = "popup" => u.shown \in DOMAIN items \cup {0}
           /\ (\/ bound[i] \in {"toggle", "reveal", "link"}
               \/ bound[i] \in {"checkbox", "radio_button"} /\ platform = "win") => u = w
<1>1. ASSUME NEW s, u = [w EXCEPT !.shown = s]
      PROVE  /\ DOMAIN u = WidgetFields /\ u.live = w.live /\ u.flag = w.flag /\ u.last = w.last
             /\ u.position = w.position /\ u.custom = w.custom /\ u.shown = s
             /\ s # w.shown => u # w
  BY <1>1 DEF WidgetFields
<1>2. CASE bound[i] = "checkbox" /\ platform = "mac"
  <2>1. PICK s \in {"checked", "unchecked"} \ {w.shown} : u = [w EXCEPT !.shown = s]
    BY <1>2, OnWin DEF W!Moved
  <2>2. QED
    BY <1>1, <1>2, <2>1
<1>3. CASE bound[i] = "radio_button" /\ platform = "mac"
  <2>1. u = [w EXCEPT !.shown = "checked"]
    BY <1>3, OnWin DEF W!Moved
  <2>2. QED
    BY <1>1, <1>3, <2>1
<1>4. CASE bound[i] = "tab_group"
  <2>1. PICK s \in {1, 2} \ {w.shown} : u = [w EXCEPT !.shown = s]
    BY <1>4 DEF W!Moved
  <2>2. QED
    BY <1>1, <1>4, <2>1
<1>5. CASE bound[i] = "slider"
  <2>1. PICK s \in {0, 1} : u = [w EXCEPT !.shown = s]
    BY <1>5 DEF W!Moved
  <2>2. QED
    BY <1>1, <1>5, <2>1
<1>6. CASE bound[i] = "popup"
  <2>1. PICK s \in (DOMAIN items \cup IF w.custom THEN {0} ELSE {}) \ {w.shown} :
            u = [w EXCEPT !.shown = s]
    BY <1>6 DEF W!Moved
  <2>2. QED
    BY <1>1, <1>6, <2>1
<1>7. CASE bound[i] = "link"
  BY <1>7 DEF W!Moved
<1>8. CASE \/ bound[i] \in {"toggle", "reveal"}
           \/ bound[i] \in {"checkbox", "radio_button"} /\ platform = "win"
  BY <1>8, OnWin DEF W!Moved
<1>9. CASE bound[i] = "edit_text"
  BY <1>9 DEF W!Moved
<1>10. QED
  BY <1>2, <1>3, <1>4, <1>5, <1>6, <1>7, <1>8, <1>9 DEF W!Kind

\* A widget when no call is left.
AtHand(i, w, c, odd, dead) ==
    /\ platform \in {"win", "mac"} /\ bound[i] \in W!Kind /\ items \in W!Menus
    /\ odd \in BOOLEAN /\ dead \in BOOLEAN
    /\ DOMAIN w = WidgetFields /\ Good(i, w, c, odd, dead, FALSE, FALSE)

\* It has become u.
MovedTo(i, w, u, c, odd, dead) ==
    Good(i, u, c, odd \/ u # w, dead, FALSE, FALSE) /\ Acted(i, u, odd \/ u # w)

LEMMA GoodMoved ==
    ASSUME NEW i, NEW w, NEW c, NEW odd, NEW dead, AtHand(i, w, c, odd, dead),
           NEW u \in W!Moved(i, w)
    PROVE  MovedTo(i, w, u, c, odd, dead)
<1> USE DEF AtHand, MovedTo
<1>1. Acted(i, u, odd \/ u # w)
  BY MovedFields DEF Acted
<1>2. CASE u = w
  BY <1>1, <1>2
<1>3. CASE u # w
  <2>1. /\ bound[i] \notin {"toggle", "reveal", "link"}
        /\ ~(bound[i] \in {"checkbox", "radio_button"} /\ platform = "win")
        /\ u.last = w.last /\ u.position = w.position /\ u.custom = w.custom
    BY <1>3, MovedFields
  <2>2. bound[i] = "popup" /\ items = <<>> => u.shown = 0
    BY MovedFields
  <2>3. Good(i, u, c, TRUE, dead, FALSE, FALSE)
    BY <2>1, <2>2
       DEF Good, AgreesLater, RemembersCell, ShowsRemembered, SliderPlaced, CustomChosen, TabUnheard
  <2>4. QED
    BY <1>1, <1>3, <2>3
<1>4. QED
  BY <1>2, <1>3

\* A text may be anything when the user has changed it.
LEMMA GoodText ==
    ASSUME NEW i, bound[i] = "edit_text", NEW w, NEW c, NEW dead
    PROVE  Good(i, w, c, TRUE, dead, FALSE, FALSE)
BY DEF Good, AgreesLater, RemembersCell, ShowsRemembered, SliderPlaced, CustomChosen,
       TabUnheard, Remembers

LEMMA TypedFields ==
    ASSUME NEW i, bound[i] = "edit_text", NEW w, DOMAIN w = WidgetFields, NEW text, NEW c, NEW odd
    PROVE  /\ DOMAIN [w EXCEPT !.last = text, !.shown = text] = WidgetFields
           /\ [w EXCEPT !.last = text, !.shown = text].live = w.live
           /\ [w EXCEPT !.last = text, !.shown = text].flag = w.flag
           /\ [w EXCEPT !.last = text, !.shown = text].shown = text
           /\ Asking(i, [w EXCEPT !.last = text, !.shown = text], c, text, odd)
<1> DEFINE typed == [w EXCEPT !.last = text, !.shown = text]
<1>1. /\ DOMAIN typed = WidgetFields /\ typed.live = w.live /\ typed.flag = w.flag
      /\ typed.last = text /\ typed.shown = text
  BY DEF WidgetFields
<1> HIDE DEF typed
<1>2. Asking(i, typed, c, text, odd)
  BY <1>1, ShowsBy DEF Asking
<1>3. QED
  BY <1>1, <1>2 DEF typed

\* What a handler asks for.
SetCall(i, v) == W!Call("set", i, v)

LEMMA HandlerBy ==
    ASSUME NEW i, NEW w, platform \in {"win", "mac"}, bound[i] \in W!Kind \ {"edit_text"}
    PROVE  W!handler(i, w) =
               CASE bound[i] = "checkbox" /\ platform = "win" -> W!checkbox_subclass_proc(i, w)
                 [] bound[i] = "checkbox" /\ platform = "mac" -> W!checkbox_hit_handler(i, w)
                 [] bound[i] = "radio_button" /\ platform = "win" -> W!radio_button_subclass_proc(i, w)
                 [] bound[i] = "radio_button" /\ platform = "mac" -> W!radio_button_hit_handler(i, w)
                 [] bound[i] \in {"toggle", "reveal"} -> W!toggle_subclass_proc(i, w)
                 [] bound[i] = "link" -> W!link_subclass_proc(i, w)
                 [] bound[i] = "slider" -> W!slider_subclass_proc(i, w)
                 [] bound[i] = "tab_group" /\ platform = "win" -> W!tab_group_subclass_proc(i, w)
                 [] bound[i] = "tab_group" /\ platform = "mac" -> W!tab_group_value_handler(i, w)
                 [] bound[i] = "popup" /\ platform = "win" -> W!popup_subclass_proc(i, w)
                 [] bound[i] = "popup" /\ platform = "mac" -> W!popup_value_handler(i, w)
BY OnWin DEF W!handler, W!Kind, W!toggle_subclass_proc, W!toggle_hit_handler,
   W!reveal_subclass_proc, W!reveal_hit_handler, W!link_subclass_proc, W!link_hit_handler,
   W!slider_subclass_proc, W!slider_action

------------------------------------------------------------------------------
(* Lists of calls put one after the other *)

LEMMA ConcatToSet ==
    ASSUME NEW Elements, NEW s \in Seq(Elements), NEW t \in Seq(Elements)
    PROVE  s \o t \in Seq(Elements) /\ ToSet(s \o t) = ToSet(s) \cup ToSet(t)
<1>1. /\ s \o t \in Seq(Elements) /\ Len(s \o t) = Len(s) + Len(t)
      /\ Len(s) \in Nat /\ Len(t) \in Nat
      /\ \A i \in 1..(Len(s) + Len(t)) :
             (s \o t)[i] = IF i <= Len(s) THEN s[i] ELSE t[i - Len(s)]
  BY ConcatProperties, LenProperties
<1> DEFINE u == s \o t
<1>2. /\ u \in Seq(Elements) /\ Len(u) = Len(s) + Len(t)
      /\ \A i \in 1..(Len(s) + Len(t)) : u[i] = IF i <= Len(s) THEN s[i] ELSE t[i - Len(s)]
  BY <1>1
<1> HIDE DEF u
<1>3. /\ \A x : x \in ToSet(u) <=> \E i \in 1..Len(u) : u[i] = x
      /\ \A x : x \in ToSet(s) <=> \E i \in 1..Len(s) : s[i] = x
      /\ \A x : x \in ToSet(t) <=> \E i \in 1..Len(t) : t[i] = x
  BY <1>2, ToSetOf
<1>4. ASSUME NEW i \in 1..Len(u) PROVE u[i] \in ToSet(s) \cup ToSet(t)
  <2>1. i <= Len(s) => i \in 1..Len(s) /\ u[i] = s[i]
    BY <1>1, <1>2
  <2>2. ~(i <= Len(s)) => i - Len(s) \in 1..Len(t) /\ u[i] = t[i - Len(s)]
    BY <1>1, <1>2
  <2>3. QED
    BY <1>3, <2>1, <2>2
<1>5. ASSUME NEW i \in 1..Len(s) PROVE i \in 1..Len(u) /\ u[i] = s[i]
  BY <1>1, <1>2
<1>6. ASSUME NEW i \in 1..Len(t)
      PROVE  Len(s) + i \in 1..Len(u) /\ u[Len(s) + i] = t[i]
  <2>1. /\ Len(s) + i \in 1..(Len(s) + Len(t)) /\ ~(Len(s) + i <= Len(s))
        /\ (Len(s) + i) - Len(s) = i
    BY <1>1
  <2>2. QED
    BY <1>2, <2>1
<1>7. ToSet(u) \subseteq ToSet(s) \cup ToSet(t)
  BY <1>3, <1>4
<1>8. ToSet(s) \subseteq ToSet(u)
  BY <1>3, <1>5
<1>9. ToSet(t) \subseteq ToSet(u)
  BY <1>3, <1>6
<1>10. QED
  BY <1>2, <1>7, <1>8, <1>9 DEF u

\* What FlattenSeq has made of the lists up to n.
FlatStep(lists, flat, n) == IF n = 1 THEN lists[n] ELSE flat[n - 1] \o lists[n]

LEMMA FlatExists ==
    ASSUME NEW lists, NEW N \in Nat \ {0}
    PROVE  \E flat : flat = [n \in 1..N |-> FlatStep(lists, flat, n)]
<1> DEFINE Defines(flat, m) == flat = [n \in 1..m |-> FlatStep(lists, flat, n)]
           T == {m \in Nat : m # 0 /\ ~\E flat : Defines(flat, m)}
<1>1. SUFFICES ASSUME T # {} PROVE FALSE
  OBVIOUS
<1>2. PICK m \in T : \A k \in T : m <= k
  BY <1>1, LeastNat
<1>3. m # 1
  <2> DEFINE f == [n \in 1..1 |-> lists[n]]
  <2>1. \A n \in 1..1 : n = 1
    OBVIOUS
  <2>2. Defines(f, 1)
    BY <2>1 DEF FlatStep
  <2>3. QED
    BY <1>2, <2>2
<1>4. m - 1 \in Nat \ {0} /\ m - 1 \notin T /\ m \in Nat
  BY <1>2, <1>3
<1>5. PICK f : Defines(f, m - 1)
  BY <1>4
<1> DEFINE g == [n \in 1..m |-> IF n = m THEN FlatStep(lists, f, m) ELSE f[n]]
<1>6. \A n \in 1..(m - 1) : g[n] = f[n] /\ f[n] = FlatStep(lists, f, n)
  BY <1>4, <1>5
<1>7. \A n \in 1..m : n # 1 => n - 1 \in 1..(m - 1)
  BY <1>4
<1>8. \A n \in 1..m : FlatStep(lists, g, n) = FlatStep(lists, f, n)
  BY <1>6, <1>7 DEF FlatStep
<1>9. \A n \in 1..m : n = m \/ n \in 1..(m - 1)
  BY <1>4
<1>10. \A n \in 1..m : g[n] = FlatStep(lists, f, n)
  BY <1>6, <1>9
<1>11. g = [n \in 1..m |-> FlatStep(lists, g, n)]
  BY <1>8, <1>10
<1>12. QED
  BY <1>2, <1>11

\* What is in lists put one after the other is what is in the lists.
LEMMA Flattened ==
    ASSUME NEW Elements, NEW lists \in Seq(Seq(Elements))
    PROVE  /\ W!FlattenSeq(lists) \in Seq(Elements)
           /\ \A x : x \in ToSet(W!FlattenSeq(lists)) <=>
                         \E j \in 1..Len(lists) : x \in ToSet(lists[j])
<1> DEFINE N == Len(lists)
           flat == CHOOSE flat : flat = [n \in 1..N |-> FlatStep(lists, flat, n)]
           Whole(m) == /\ flat[m] \in Seq(Elements)
                       /\ \A x : x \in ToSet(flat[m]) <=> \E j \in 1..m : x \in ToSet(lists[j])
           T == {m \in Nat : m # 0 /\ m <= N /\ ~Whole(m)}
<1>1. N \in Nat /\ \A j \in 1..N : lists[j] \in Seq(Elements)
  BY LenProperties, ElementOfSeq
<1>2. CASE N = 0
  <2>1. lists = <<>> /\ W!FlattenSeq(lists) = lists
    BY <1>2, EmptySeq DEF W!FlattenSeq
  <2>2. <<>> \in Seq(Elements) /\ ToSet(<<>>) = {}
    BY EmptySeq, ToSetOf
  <2>3. 1..N = {}
    BY <1>2
  <2>4. QED
    BY <2>1, <2>2, <2>3
<1>3. CASE N # 0
  <2>1. flat = [n \in 1..N |-> FlatStep(lists, flat, n)]
    BY <1>1, <1>3, FlatExists
  <2>2. W!FlattenSeq(lists) = flat[N]
    BY <1>3 DEF W!FlattenSeq, FlatStep
  <2> HIDE DEF flat
  <2>3. \A n \in 1..N : flat[n] = FlatStep(lists, flat, n)
    BY <2>1
  <2>4. ASSUME T # {} PROVE FALSE
    <3>1. PICK m \in T : \A k \in T : m <= k
      BY <2>4, LeastNat
    <3>2. m \in 1..N /\ flat[m] = FlatStep(lists, flat, m) /\ ~Whole(m) /\ m \in Nat
      BY <1>1, <2>3, <3>1
    <3>3. m # 1
      <4>1. \A j \in 1..1 : j = 1
        OBVIOUS
      <4>2. m = 1 => flat[m] = lists[1]
        BY <3>2 DEF FlatStep
      <4>3. QED
        BY <1>1, <3>2, <4>1, <4>2
    <3>4. m - 1 \in Nat /\ m - 1 # 0 /\ m - 1 <= N /\ m - 1 \notin T
      <4>1. m - 1 \in Nat /\ m - 1 # 0 /\ m - 1 <= N /\ ~(m <= m - 1)
        BY <1>1, <3>2, <3>3
      <4> HIDE DEF T
      <4>2. QED
        BY <3>1, <4>1
    <3>5. Whole(m - 1) /\ lists[m] \in Seq(Elements) /\ flat[m] = flat[m - 1] \o lists[m]
      BY <1>1, <3>2, <3>3, <3>4 DEF FlatStep
    <3>6. flat[m] \in Seq(Elements) /\ ToSet(flat[m]) = ToSet(flat[m - 1]) \cup ToSet(lists[m])
      BY <3>5, ConcatToSet
    <3>7. \A j : j \in 1..m <=> j \in 1..(m - 1) \/ j = m
      BY <3>2, <3>4
    <3>8. \A x : x \in ToSet(flat[m]) <=> \E j \in 1..m : x \in ToSet(lists[j])
      BY <3>5, <3>6, <3>7
    <3>9. QED
      BY <3>2, <3>6, <3>8
  <2>5. N \notin T
    BY <2>4
  <2>6. QED
    BY <1>1, <1>3, <2>2, <2>5
<1>4. QED
  BY <1>2, <1>3

\* A handler that asks for v: the widget it leaves, and its calls.
Asked(i, w, c, odd, u, calls_made) ==
    \E v \in W!Value :
        /\ Asking(i, u, c, v, odd)
        /\ \/ calls_made = <<SetCall(i, v)>> /\ u.flag = w.flag
           \/ calls_made = <<SetCall(i, v), W!Call("clear", i, none)>> /\ bound[i] = "tab_group"

Handled(i, w, c, odd, u, calls_made) ==
    /\ DOMAIN u = WidgetFields /\ u.live = w.live /\ (bound[i] = "popup" => u = w)
    /\ \/ calls_made = <<>> /\ u.flag = w.flag
       \/ Asked(i, w, c, odd, u, calls_made)
       \/ calls_made = <<W!Call("throw", i, none)>> /\ u.flag = w.flag

\* What handlers leave.
Handles(i, w, c, odd, dead) ==
    \E u : \E calls_made :
        /\ W!handler(i, w) = <<u, calls_made>>
        /\ Good(i, u, c, odd, dead, FALSE, FALSE) /\ Handled(i, w, c, odd, u, calls_made)

LEMMA CheckboxAsks ==
    ASSUME NEW i, NEW w, NEW c, NEW odd \in BOOLEAN, NEW dead \in BOOLEAN,
           platform \in {"win", "mac"}, bound[i] = "checkbox",
           DOMAIN w = WidgetFields, Good(i, w, c, odd, dead, FALSE, FALSE), Acted(i, w, odd)
    PROVE  Handles(i, w, c, odd, dead)
<1>1. CASE platform = "win"
  <2> DEFINE v == IF w.last = W!On THEN W!Off ELSE W!On
  <2>1. W!handler(i, w) = <<w, <<SetCall(i, v)>>>>
    BY <1>1, HandlerBy DEF W!checkbox_subclass_proc, W!Ask, SetCall, W!Kind
  <2>2. w.last = c
    BY <1>1 DEF Good, RemembersCell, Remembers
  <2>3. v # c /\ v \in W!Value
    BY <2>2, WidgetConstants
  <2>4. Asking(i, w, c, v, odd)
    BY <1>1, <2>3 DEF Asking
  <2> HIDE DEF v
  <2>5. QED
    BY <2>1, <2>3, <2>4 DEF Handles, Handled, Asked
<1>2. CASE platform = "mac"
  <2> DEFINE v == IF w.shown = "checked" THEN W!On ELSE W!Off
  <2>1. W!handler(i, w) = <<w, <<SetCall(i, v)>>>>
    BY <1>2, HandlerBy DEF W!checkbox_hit_handler, W!Ask, SetCall, W!Kind
  <2>2. w.shown \in {"checked", "unchecked"}
    BY <1>2 DEF Acted
  <2>3. w.shown = W!Shows(i, v, w.live) /\ v \in W!Value
    BY <2>2, ShowsBy, WidgetConstants
  <2>4. Asking(i, w, c, v, odd)
    BY <1>2, <2>3 DEF Asking
  <2> HIDE DEF v
  <2>5. QED
    BY <2>1, <2>3, <2>4 DEF Handles, Handled, Asked
<1>3. QED
  BY <1>1, <1>2

LEMMA RadioAsks ==
    ASSUME NEW i, NEW w, NEW c, NEW odd \in BOOLEAN, NEW dead \in BOOLEAN,
           platform \in {"win", "mac"}, bound[i] = "radio_button", i \in {1, 2},
           DOMAIN w = WidgetFields, Good(i, w, c, odd, dead, FALSE, FALSE), Acted(i, w, odd)
    PROVE  Handles(i, w, c, odd, dead)
<1> DEFINE v == <<W!On, W!Off>>[i]
<1>1. v \in W!Value
  BY WidgetConstants
<1>2. CASE platform = "win"
  <2>1. W!handler(i, w) = <<w, <<SetCall(i, v)>>>>
    BY <1>2, HandlerBy DEF W!radio_button_subclass_proc, W!Ask, SetCall, W!Kind
  <2>2. Asking(i, w, c, v, odd)
    BY <1>2 DEF Asking
  <2> HIDE DEF v
  <2>3. QED
    BY <1>1, <2>1, <2>2 DEF Handles, Handled, Asked
<1>3. CASE platform = "mac"
  <2>1. W!handler(i, w) = IF w.last = v THEN <<w, <<>>>> ELSE <<[w EXCEPT !.last = v], <<SetCall(i, v)>>>>
    BY <1>3, HandlerBy DEF W!radio_button_hit_handler, W!Ask, W!Quietly, SetCall, W!Kind
  <2>2. w.shown = "checked"
    BY <1>3 DEF Acted
  <2>3. \A live : W!Shows(i, v, live) = "checked"
    BY ShowsBy
  <2> HIDE DEF v
  <2>4. CASE w.last = v
    BY <2>1, <2>4 DEF Handles, Handled
  <2>5. CASE w.last # v
    <3> DEFINE u == [w EXCEPT !.last = v]
    <3>1. /\ DOMAIN u = WidgetFields /\ u.live = w.live /\ u.flag = w.flag
          /\ u.last = v /\ u.shown = w.shown
      BY DEF WidgetFields
    <3>2. W!handler(i, w) = <<u, <<SetCall(i, v)>>>>
      BY <2>1, <2>5
    <3> HIDE DEF u
    <3>3. Asking(i, u, c, v, odd)
      BY <1>3, <2>2, <2>3, <3>1 DEF Asking
    <3>4. Consistent(i, u)
      BY <2>2, <2>3, <3>1 DEF Consistent
    <3>5. Good(i, u, c, odd, dead, FALSE, FALSE)
      BY <1>3, <3>1, <3>4
         DEF Good, AgreesLater, RemembersCell, ShowsRemembered, SliderPlaced, CustomChosen,
             TabUnheard, Remembers, W!Agrees
    <3>6. QED
      BY <1>1, <3>1, <3>2, <3>3, <3>5 DEF Handles, Handled, Asked
  <2>6. QED
    BY <2>4, <2>5
<1>4. QED
  BY <1>2, <1>3

LEMMA ToggleAsks ==
    ASSUME NEW i, NEW w, NEW c, NEW odd \in BOOLEAN, NEW dead \in BOOLEAN,
           platform \in {"win", "mac"}, bound[i] \in {"toggle", "reveal"},
           DOMAIN w = WidgetFields, Good(i, w, c, odd, dead, FALSE, FALSE)
    PROVE  Handles(i, w, c, odd, dead)
<1> DEFINE v == W!Toggled(w.last)
<1>1. W!handler(i, w) = <<w, <<SetCall(i, v)>>>>
  BY HandlerBy DEF W!toggle_subclass_proc, W!Ask, SetCall, W!Kind
<1>2. w.last = c
  BY DEF Good, RemembersCell, Remembers
<1>3. v # c /\ v \in W!Value
  BY <1>2, WidgetConstants DEF W!Toggled
<1> HIDE DEF v
<1>4. Asking(i, w, c, v, odd)
  BY <1>3 DEF Asking
<1>5. QED
  BY <1>1, <1>3, <1>4 DEF Handles, Handled, Asked

LEMMA LinkAsks ==
    ASSUME NEW i, NEW w, NEW c, NEW odd \in BOOLEAN, NEW dead \in BOOLEAN,
           platform \in {"win", "mac"}, bound[i] = "link",
           DOMAIN w = WidgetFields, Good(i, w, c, odd, dead, FALSE, FALSE)
    PROVE  Handles(i, w, c, odd, dead)
<1>1. W!handler(i, w) = <<w, <<SetCall(i, W!Off)>>>>
  BY HandlerBy DEF W!link_subclass_proc, W!Ask, SetCall, W!Kind
<1>2. Asking(i, w, c, W!Off, odd) /\ W!Off \in W!Value
  BY WidgetConstants DEF Asking
<1>3. QED
  BY <1>1, <1>2 DEF Handles, Handled, Asked

LEMMA SliderAsks ==
    ASSUME NEW i, NEW w, NEW c, NEW odd \in BOOLEAN, NEW dead \in BOOLEAN,
           platform \in {"win", "mac"}, bound[i] = "slider",
           DOMAIN w = WidgetFields, Good(i, w, c, odd, dead, FALSE, FALSE), Acted(i, w, odd)
    PROVE  Handles(i, w, c, odd, dead)
<1> DEFINE v == W!at(w.shown)
           u == [w EXCEPT !.last = v]
<1>1. W!handler(i, w) = IF v = w.last THEN <<w, <<>>>> ELSE <<u, <<SetCall(i, v)>>>>
  BY HandlerBy DEF W!slider_subclass_proc, W!Ask, W!Quietly, SetCall, W!Kind
<1>2. w.shown \in {0, 1}
  BY DEF Acted
<1>3. v \in W!Value /\ w.shown = W!find(v)
  BY <1>2, SliderSteps, WidgetConstants
<1>4. /\ DOMAIN u = WidgetFields /\ u.live = w.live /\ u.flag = w.flag
      /\ u.position = w.position /\ u.shown = w.shown
  BY DEF WidgetFields
<1> HIDE DEF u, v
<1>5. Asking(i, u, c, v, odd)
  BY <1>3, <1>4, ShowsBy DEF Asking
<1>6. Good(i, u, c, odd, dead, FALSE, FALSE)
  BY <1>4
     DEF Good, AgreesLater, RemembersCell, ShowsRemembered, SliderPlaced, CustomChosen,
         TabUnheard, Remembers, Skips, W!Agrees
<1>7. QED
  BY <1>1, <1>3, <1>4, <1>5, <1>6 DEF Handles, Handled, Asked

LEMMA TabAsks ==
    ASSUME NEW i, NEW w, NEW c, NEW odd \in BOOLEAN, NEW dead \in BOOLEAN,
           platform \in {"win", "mac"}, bound[i] = "tab_group",
           DOMAIN w = WidgetFields, Good(i, w, c, odd, dead, FALSE, FALSE), Acted(i, w, odd)
    PROVE  Handles(i, w, c, odd, dead)
<1> DEFINE v == <<W!On, W!Off>>[w.shown]
<1>1. w.shown \in {1, 2} /\ odd
  BY DEF Acted
<1>2. v \in W!Value /\ \A live : W!Shows(i, v, live) = w.shown
  BY <1>1, TabAt, ShowsBy, WidgetConstants
<1>3. CASE platform = "win"
  <2>1. W!handler(i, w) = <<w, <<SetCall(i, v)>>>>
    BY <1>3, HandlerBy DEF W!tab_group_subclass_proc, W!Ask, SetCall, W!Kind
  <2> HIDE DEF v
  <2>2. Asking(i, w, c, v, odd)
    BY <1>1, <1>2 DEF Asking
  <2>3. QED
    BY <1>2, <2>1, <2>2 DEF Handles, Handled, Asked
<1>4. CASE platform = "mac" /\ w.flag
  <2>1. W!tab_group_value_handler(i, w) = <<w, <<>>>>
    BY <1>4 DEF W!tab_group_value_handler, W!Quietly
  <2>2. W!handler(i, w) = <<w, <<>>>>
    BY <1>4, <2>1, HandlerBy DEF W!Kind
  <2>3. QED
    BY <2>2 DEF Handles, Handled
<1>5. CASE platform = "mac" /\ ~w.flag
  <2> DEFINE u == [w EXCEPT !.flag = TRUE]
  <2>1. W!handler(i, w) = <<u, <<SetCall(i, v), W!Call("clear", i, none)>>>>
    <3>1. W!Max({w.shown, 1}) = w.shown
      BY <1>1, GreatestWithOne
    <3>2. QED
      BY <1>5, <3>1, HandlerBy DEF W!tab_group_value_handler, SetCall, W!Kind
  <2>2. /\ DOMAIN u = WidgetFields /\ u.live = w.live /\ u.shown = w.shown
    BY DEF WidgetFields
  <2> HIDE DEF u, v
  <2>3. Asking(i, u, c, v, odd)
    BY <1>1, <1>2, <2>2 DEF Asking
  <2>4. Good(i, u, c, odd, dead, FALSE, FALSE)
    BY <1>1, <2>2
       DEF Good, AgreesLater, RemembersCell, ShowsRemembered, SliderPlaced, CustomChosen,
           TabUnheard, Remembers, Skips
  <2>5. QED
    BY <1>2, <2>1, <2>2, <2>3, <2>4 DEF Handles, Handled, Asked
<1>6. QED
  BY <1>3, <1>4, <1>5

LEMMA PopupAsks ==
    ASSUME NEW i, NEW w, NEW c, NEW odd \in BOOLEAN, NEW dead \in BOOLEAN,
           platform \in {"win", "mac"}, bound[i] = "popup", items \in W!Menus,
           DOMAIN w = WidgetFields, Good(i, w, c, odd, dead, FALSE, FALSE), Acted(i, w, odd)
    PROVE  Handles(i, w, c, odd, dead)
<1> DEFINE v == items[w.shown]
<1>1. w.shown \in DOMAIN items \cup {0}
  BY DEF Acted
<1>2. \/ items = <<>> \/ items = <<0, 3>> \/ items = <<3>>
  BY WidgetConstants DEF W!Menus
<1>3. DOMAIN items = 1..Len(items) /\ Len(items) \in Nat
  BY <1>2
<1>4. \/ W!handler(i, w) = <<w, <<>>>>
      \/ w.shown = 0 /\ W!handler(i, w) = <<w, <<W!Call("throw", i, none)>>>>
      \/ w.shown # 0 /\ W!handler(i, w) = <<w, <<SetCall(i, v)>>>>
  BY HandlerBy DEF W!popup_subclass_proc, W!popup_value_handler, W!Ask, W!Quietly, SetCall, W!Kind
<1>5. CASE w.shown = 0
  BY <1>4, <1>5 DEF Handles, Handled
<1>6. CASE w.shown # 0
  <2>1. w.shown \in DOMAIN items
    BY <1>1, <1>6
  <2>2. v \in W!Value
    BY <1>2, <2>1, WidgetConstants
  <2>3. W!Index(items, v) = w.shown /\ W!Contains(items, v)
    BY <2>1, IndexAt
  <2> HIDE DEF v
  <2>4. Asking(i, w, c, v, odd)
    BY <2>3, ShowsBy DEF Asking
  <2>5. QED
    BY <1>4, <1>6, <2>2, <2>4 DEF Handles, Handled, Asked
<1>7. QED
  BY <1>5, <1>6

\* When the user has acted, the handler asks for what its control shows, for what the
\* widget remembers turned round, or for nothing.
LEMMA HandlerAsks ==
    ASSUME NEW i, NEW w, NEW c, NEW odd \in BOOLEAN, NEW dead \in BOOLEAN,
           platform \in {"win", "mac"}, bound[i] \in W!Kind, items \in W!Menus,
           bound[i] = "radio_button" => i \in {1, 2},
           DOMAIN w = WidgetFields, Good(i, w, c, odd, dead, FALSE, FALSE), Acted(i, w, odd)
    PROVE  Handles(i, w, c, odd, dead)
<1>1. bound[i] # "edit_text"
  BY DEF Acted
<1>2. QED
  BY <1>1, CheckboxAsks, RadioAsks, ToggleAsks, LinkAsks, SliderAsks, TabAsks, PopupAsks DEF W!Kind

\* A handler that is called because the program changed the control does nothing.
LEMMA HandlerSilent ==
    ASSUME NEW i, NEW w, platform \in {"win", "mac"}, w.flag,
           bound[i] = "popup" \/ (bound[i] = "tab_group" /\ platform = "mac")
    PROVE  W!handler(i, w) = <<w, <<>>>>
<1>1. bound[i] \in W!Kind \ {"edit_text"}
  BY DEF W!Kind
<1>2. CASE bound[i] = "popup"
  BY <1>1, <1>2, HandlerBy DEF W!popup_subclass_proc, W!popup_value_handler, W!Quietly
<1>3. CASE bound[i] = "tab_group" /\ platform = "mac"
  <2>1. W!tab_group_value_handler(i, w) = <<w, <<>>>>
    BY DEF W!tab_group_value_handler, W!Quietly
  <2>2. QED
    BY <1>1, <1>3, <2>1, HandlerBy
<1>4. QED
  BY <1>2, <1>3

------------------------------------------------------------------------------
(* The widgets: what is left of the calls *)

LEMMA DueParts ==
    ASSUME NEW s \in Seq(WidgetCall), NEW t \in Seq(WidgetCall), NEW op
    PROVE  /\ s \o t \in Seq(WidgetCall)
           /\ DueIn(s \o t, op) = DueIn(s, op) \cup DueIn(t, op)
BY ConcatToSet DEF DueIn

LEMMA DueNone == \A op : DueIn(<<>>, op) = {} /\ ToSet(<<>>) = {}
<1>1. ToSet(<<>>) = {}
  BY DEF ToSet
<1>2. QED
  BY <1>1 DEF DueIn

LEMMA DueFirst ==
    ASSUME NEW s \in Seq(WidgetCall), s # <<>>
    PROVE  /\ Head(s) \in WidgetCall /\ Tail(s) \in Seq(WidgetCall)
           /\ ToSet(s) = {Head(s)} \cup ToSet(Tail(s))
           /\ \A op : DueIn(s, op) = (IF Head(s).op = op THEN {Head(s).i} ELSE {}) \cup DueIn(Tail(s), op)
<1>1. /\ Head(s) \in WidgetCall /\ Tail(s) \in Seq(WidgetCall)
      /\ ToSet(s) = {Head(s)} \cup ToSet(Tail(s))
  <2>1. Head(s) \in WidgetCall /\ Tail(s) \in Seq(WidgetCall) /\ s = Cons(Head(s), Tail(s))
    BY HeadTailCons
  <2>2. ToSet(Cons(Head(s), Tail(s))) = {Head(s)} \cup ToSet(Tail(s))
    BY <2>1, ConsToSet
  <2>3. QED
    BY <2>1, <2>2
<1>2. QED
  BY <1>1 DEF DueIn

LEMMA DueWhich ==
    ASSUME NEW s, NEW op, NEW j
    PROVE  j \in DueIn(s, op) <=> \E c \in ToSet(s) : c.op = op /\ c.i = j
BY DEF DueIn

\* One call, or two.
LEMMA OneCall ==
    ASSUME NEW a \in WidgetCall
    PROVE  /\ <<a>> \in Seq(WidgetCall) /\ <<a>> # <<>> /\ ToSet(<<a>>) = {a}
           /\ Head(<<a>>) = a /\ Tail(<<a>>) = <<>>
<1>1. \A j \in DOMAIN <<a>> : <<a>>[j] = a
  OBVIOUS
<1>2. ToSet(<<a>>) = {a}
  BY DEF ToSet
<1>3. QED
  BY <1>2

LEMMA TwoCalls ==
    ASSUME NEW a \in WidgetCall, NEW b \in WidgetCall
    PROVE  /\ <<a, b>> \in Seq(WidgetCall) /\ <<a, b>> # <<>> /\ ToSet(<<a, b>>) = {a, b}
           /\ Head(<<a, b>>) = a /\ Tail(<<a, b>>) = <<b>>
<1>1. ToSet(<<a, b>>) = {a, b}
  <2>1. DOMAIN <<a, b>> = {1, 2} /\ <<a, b>>[1] = a /\ <<a, b>>[2] = b
    OBVIOUS
  <2>2. QED
    BY <2>1 DEF ToSet
<1>2. QED
  BY <1>1

LEMMA ConcatHead ==
    ASSUME NEW Elements, NEW s \in Seq(Elements), s # <<>>, NEW t \in Seq(Elements)
    PROVE  s \o t # <<>> /\ Head(s \o t) = Head(s) /\ Tail(s \o t) = Tail(s) \o t
<1>1. /\ Tail(s) \in Seq(Elements) /\ Len(Tail(s)) = Len(s) - 1 /\ Len(s) \in Nat \ {0} /\ Len(t) \in Nat
      /\ \A j \in 1..(Len(s) - 1) : Tail(s)[j] = s[j + 1]
      /\ Head(s) = s[1]
  BY HeadTailProperties, EmptySeq, LenProperties
<1>2. /\ s \o t \in Seq(Elements) /\ Len(s \o t) = Len(s) + Len(t)
      /\ \A j \in 1..(Len(s) + Len(t)) : (s \o t)[j] = IF j <= Len(s) THEN s[j] ELSE t[j - Len(s)]
  BY ConcatProperties
<1> DEFINE u == s \o t
           r == Tail(s)
           v == r \o t
<1>3. /\ v \in Seq(Elements) /\ Len(v) = Len(r) + Len(t)
      /\ \A j \in 1..(Len(r) + Len(t)) : v[j] = IF j <= Len(r) THEN r[j] ELSE t[j - Len(r)]
  BY <1>1, ConcatProperties
<1>4. /\ u \in Seq(Elements) /\ Len(u) = Len(s) + Len(t)
      /\ \A j \in 1..(Len(s) + Len(t)) : u[j] = IF j <= Len(s) THEN s[j] ELSE t[j - Len(s)]
  BY <1>2
<1>5. /\ r \in Seq(Elements) /\ Len(r) = Len(s) - 1 /\ \A j \in 1..(Len(s) - 1) : r[j] = s[j + 1]
  BY <1>1
<1> HIDE DEF u, v, r
<1>6. u # <<>>
  <2>1. Len(u) # 0
    BY <1>1, <1>4
  <2>2. QED
    BY <2>1, EmptySeq
<1>7. /\ Tail(u) \in Seq(Elements) /\ Len(Tail(u)) = Len(u) - 1
      /\ \A j \in 1..Len(Tail(u)) : Tail(u)[j] = u[j + 1]
      /\ Head(u) = u[1]
  BY <1>4, <1>6, HeadTailProperties
<1>8. Len(Tail(u)) = Len(v)
  BY <1>1, <1>3, <1>4, <1>5, <1>7
<1>9. ASSUME NEW j \in 1..Len(v) PROVE Tail(u)[j] = v[j]
  <2>1. j \in 1..Len(Tail(u)) /\ j + 1 \in 1..(Len(s) + Len(t)) /\ j \in 1..(Len(r) + Len(t))
    BY <1>1, <1>3, <1>5, <1>8
  <2>2. Tail(u)[j] = u[j + 1] /\ u[j + 1] = IF j + 1 <= Len(s) THEN s[j + 1] ELSE t[(j + 1) - Len(s)]
    BY <1>4, <1>7, <2>1
  <2>3. v[j] = IF j <= Len(r) THEN r[j] ELSE t[j - Len(r)]
    BY <1>3, <2>1
  <2>4. j \in Int /\ Len(s) \in Int /\ Len(r) = Len(s) - 1
    BY <1>1, <1>5, <2>1
  <2>5. CASE j <= Len(r)
    <3>1. j + 1 <= Len(s) /\ j \in 1..(Len(s) - 1)
      BY <2>1, <2>4, <2>5
    <3>2. QED
      BY <1>5, <2>2, <2>3, <2>5, <3>1
  <2>6. CASE ~(j <= Len(r))
    <3>1. ~(j + 1 <= Len(s)) /\ (j + 1) - Len(s) = j - Len(r)
      BY <2>4, <2>6
    <3>2. QED
      BY <2>2, <2>3, <2>6, <3>1
  <2>7. QED
    BY <2>5, <2>6
<1>10. Tail(u) = v
  BY <1>3, <1>7, <1>8, <1>9, SeqEqual
<1>11. Head(u) = Head(s)
  <2>1. 1 \in 1..(Len(s) + Len(t)) /\ 1 <= Len(s)
    BY <1>1
  <2>2. QED
    BY <1>1, <1>4, <1>7, <2>1
<1>12. QED
  BY <1>6, <1>10, <1>11 DEF u, v, r

\* Where the window is laid out last.
LEMMA LayoutTail ==
    ASSUME NEW s \in Seq(WidgetCall), s # <<>>, LayoutLast(s)
    PROVE  /\ LayoutLast(Tail(s))
           /\ Head(s).op = "layout" => \A c \in ToSet(Tail(s)) : c.op = "clear"
<1>1. /\ Tail(s) \in Seq(WidgetCall) /\ Len(Tail(s)) = Len(s) - 1 /\ Len(s) \in Nat \ {0}
      /\ \A j \in 1..(Len(s) - 1) : Tail(s)[j] = s[j + 1]
      /\ Head(s) = s[1]
  BY HeadTailProperties, EmptySeq
<1>2. DOMAIN s = 1..Len(s) /\ DOMAIN Tail(s) = 1..(Len(s) - 1)
  BY <1>1
<1>3. \A j \in DOMAIN Tail(s) : j + 1 \in DOMAIN s /\ 1 < j + 1 /\ Tail(s)[j] = s[j + 1]
  BY <1>1, <1>2
<1>4. LayoutLast(Tail(s))
  <2>1. SUFFICES ASSUME NEW j \in DOMAIN Tail(s), NEW k \in DOMAIN Tail(s),
                        Tail(s)[j].op = "layout" /\ j < k
                 PROVE  Tail(s)[k].op = "clear"
    BY DEF LayoutLast
  <2>2. Tail(s)[j].op = "layout" /\ j < k
    BY <2>1
  <2>3. j + 1 < k + 1
    BY <1>2, <2>2
  <2>4. QED
    BY <1>3, <2>2, <2>3 DEF LayoutLast
<1>5. ASSUME Head(s).op = "layout" PROVE \A c \in ToSet(Tail(s)) : c.op = "clear"
  <2>1. \A j \in DOMAIN Tail(s) : Tail(s)[j].op = "clear"
    BY <1>1, <1>2, <1>3, <1>5 DEF LayoutLast
  <2>2. QED
    BY <2>1 DEF ToSet
<1>6. QED
  BY <1>4, <1>5

LEMMA LayoutBehind ==
    ASSUME NEW s \in Seq(WidgetCall), NEW t \in Seq(WidgetCall), LayoutLast(t),
           \A c \in ToSet(s) : c.op # "layout"
    PROVE  LayoutLast(s \o t)
<1>1. /\ s \o t \in Seq(WidgetCall) /\ Len(s \o t) = Len(s) + Len(t)
      /\ Len(s) \in Nat /\ Len(t) \in Nat
      /\ \A j \in 1..(Len(s) + Len(t)) : (s \o t)[j] = IF j <= Len(s) THEN s[j] ELSE t[j - Len(s)]
  BY ConcatProperties, LenProperties
<1> DEFINE u == s \o t
<1>2. /\ DOMAIN u = 1..(Len(s) + Len(t))
      /\ \A j \in 1..(Len(s) + Len(t)) : u[j] = IF j <= Len(s) THEN s[j] ELSE t[j - Len(s)]
  BY <1>1
<1> HIDE DEF u
<1>3. DOMAIN s = 1..Len(s) /\ DOMAIN t = 1..Len(t)
  OBVIOUS
<1>4. \A j \in 1..Len(s) : s[j].op # "layout"
  BY <1>3 DEF ToSet
<1>5. LayoutLast(u)
  <2>1. SUFFICES ASSUME NEW j \in DOMAIN u, NEW k \in DOMAIN u,
                        u[j].op = "layout" /\ j < k
                 PROVE  u[k].op = "clear"
    BY DEF LayoutLast
  <2>2. u[j].op = "layout" /\ j < k
    BY <2>1
  <2>3. ~(j <= Len(s))
    BY <1>1, <1>2, <1>4, <2>2
  <2>4. /\ j - Len(s) \in 1..Len(t) /\ k - Len(s) \in 1..Len(t) /\ j - Len(s) < k - Len(s)
        /\ ~(k <= Len(s))
    BY <1>1, <1>2, <2>2, <2>3
  <2>5. u[j] = t[j - Len(s)] /\ u[k] = t[k - Len(s)]
    BY <1>2, <2>3, <2>4
  <2>6. QED
    BY <1>3, <2>2, <2>4, <2>5 DEF LayoutLast
<1>6. QED
  BY <1>5 DEF u

LEMMA LayoutBefore ==
    ASSUME NEW s \in Seq(WidgetCall), \A c \in ToSet(s) : c.op # "layout"
    PROVE  LayoutLast(s)
BY DEF LayoutLast, ToSet

------------------------------------------------------------------------------
(* The widgets: every step keeps the invariant *)

\* What is said of a widget does not depend on the others.
LEMMA GoodKept ==
    ASSUME platform' = platform, bound' = bound, items' = items,
           NEW i, NEW w, NEW c, NEW odd, NEW dead, NEW a, NEW b
    PROVE  Good(i, w, c, odd, dead, a, b)' <=> Good(i, w, c, odd, dead, a, b)
BY DEF Good, AgreesLater, RemembersCell, ShowsRemembered, SliderPlaced, CustomChosen, TabUnheard,
   Remembers, Skips, Consistent, W!Agrees, W!Shows, W!find, W!Contains, W!Index, W!Min,
   W!SelectInSeq

LEMMA ActedKept ==
    ASSUME platform' = platform, bound' = bound, items' = items, NEW i, NEW w, NEW odd
    PROVE  Acted(i, w, odd)' <=> Acted(i, w, odd)
BY DEF Acted

LEMMA AskingKept ==
    ASSUME platform' = platform, bound' = bound, items' = items,
           NEW i, NEW w, NEW c, NEW v, NEW odd
    PROVE  Asking(i, w, c, v, odd)' <=> Asking(i, w, c, v, odd)
BY DEF Asking, W!Shows, W!find, W!Contains, W!Index, W!Min, W!SelectInSeq

LEMMA GoodNext ==
    ASSUME platform' = platform, bound' = bound, items' = items,
           \A i \in DOMAIN bound :
               Good(i, widget'[i], shared_cell', i \in stray', i \in stuck',
                    i \in DueIn(calls_due', "display"), i \in DueIn(calls_due', "reset"))
    PROVE  AllGood'
BY GoodKept DEF AllGood, Due, DueIn

LEMMA CellValues ==
    /\ W!CellValue \subseteq W!Value
    /\ bound' = bound => W!CellValue' = W!CellValue
BY DEF W!CellValue, W!Contains

\* The widget at the head of the calls becomes another, and calls are made.
Turns(i, u, made) ==
    /\ calls_due # <<>> /\ i = Head(calls_due).i
    /\ DOMAIN u = WidgetFields /\ made \in Seq(WidgetCall)
    /\ bound[i] = "popup" => u.last \in W!Value
    /\ \A c \in ToSet(made) : c.i = i /\ c.op \in {"changed", "clear", "set", "throw"}
    /\ widget' = [widget EXCEPT ![i] = u] /\ calls_due' = made \o Tail(calls_due)
    /\ UNCHANGED <<platform, bound, shared_cell, enabled, items, writes, stuck>>
    /\ \A j \in DOMAIN bound \ {i} : j \in stray' <=> j \in stray
    /\ Good(i, u, shared_cell, i \in stray', i \in stuck,
            i \in DueIn(Tail(calls_due), "display"), i \in DueIn(Tail(calls_due), "reset"))
    /\ i \in DueIn(Tail(calls_due), "enable") \/ bound[i] \in {"reveal", "popup"}
           \/ u.live = enabled
    /\ bound[i] = "tab_group" /\ u.flag =>
           i \in stuck \/ i \in DueIn(made, "clear") \/ i \in DueIn(Tail(calls_due), "clear")

LEMMA Becoming ==
    ASSUME WidgetInv, NEW i, NEW u, NEW made, Turns(i, u, made)
    PROVE  /\ WidgetTypes' /\ LayoutLast(calls_due)' /\ CallsOnlyCell' /\ FlagsDue'
           /\ AllLive' /\ AllGood'
           /\ i \in DOMAIN bound /\ widget'[i] = u
<1> USE DEF Turns
<1> DEFINE rest == Tail(calls_due)
           due == calls_due'
<1>1. /\ calls_due \in Seq(WidgetCall) /\ Head(calls_due) \in WidgetCall /\ rest \in Seq(WidgetCall)
      /\ ToSet(calls_due) = {Head(calls_due)} \cup ToSet(rest)
      /\ \A op : DueIn(calls_due, op) =
                     (IF Head(calls_due).op = op THEN {i} ELSE {}) \cup DueIn(rest, op)
  BY DueFirst DEF WidgetInv, WidgetTypes
<1>2. i \in DOMAIN bound
  BY <1>1 DEF WidgetCall
<1>3. due = made \o rest
  OBVIOUS
<1>4. LayoutLast(rest)
  BY <1>1, LayoutTail DEF WidgetInv
<1> HIDE DEF rest
<1>5. /\ made \o rest \in Seq(WidgetCall) /\ ToSet(made \o rest) = ToSet(made) \cup ToSet(rest)
      /\ \A op : DueIn(made \o rest, op) = DueIn(made, op) \cup DueIn(rest, op)
  BY <1>1, ConcatToSet, DueParts
<1>6. LayoutLast(made \o rest)
  BY <1>1, <1>4, LayoutBehind
<1> HIDE DEF due
<1>7. /\ due \in Seq(WidgetCall) /\ ToSet(due) = ToSet(made) \cup ToSet(rest)
      /\ \A op : DueIn(due, op) = DueIn(made, op) \cup DueIn(rest, op)
      /\ LayoutLast(due)
  BY <1>3, <1>5, <1>6
<1>8. /\ widget'[i] = u /\ DOMAIN widget' = DOMAIN bound
      /\ \A j \in DOMAIN bound \ {i} : widget'[j] = widget[j]
  BY <1>2 DEF WidgetInv, WidgetTypes
<1>9. WidgetTypes'
  <2>1. WidgetCall' = WidgetCall
    BY DEF WidgetCall
  <2>2. \A j \in DOMAIN bound : DOMAIN widget'[j] = WidgetFields
    BY <1>8 DEF WidgetInv, WidgetTypes
  <2>5. \A j \in DOMAIN bound : bound[j] = "popup" => widget'[j].last \in W!Value
    BY <1>8 DEF WidgetInv, WidgetTypes
  <2>3. calls_due' \in Seq(WidgetCall)'
    BY <1>7, <2>1 DEF due
  <2>4. QED
    BY <1>8, <2>2, <2>3, <2>5, CellValues DEF WidgetInv, WidgetTypes
<1>10. \A op : op \notin {"changed", "clear", "set", "throw"} => DueIn(made, op) = {}
  BY DueWhich
<1>11. \A op : \A j \in DOMAIN bound \ {i} : j \notin DueIn(made, op)
  BY DueWhich
<1>12. \A op : \A j \in DOMAIN bound \ {i} : j \in DueIn(due, op) <=> j \in DueIn(calls_due, op)
  BY <1>1, <1>7, <1>11
<1>13. /\ i \in DueIn(due, "display") <=> i \in DueIn(rest, "display")
       /\ i \in DueIn(due, "reset") <=> i \in DueIn(rest, "reset")
       /\ i \in DueIn(due, "enable") <=> i \in DueIn(rest, "enable")
  BY <1>7, <1>10
<1>14. AllGood'
  <2>1. \A j \in DOMAIN bound :
            Good(j, widget'[j], shared_cell', j \in stray', j \in stuck',
                 j \in DueIn(due, "display"), j \in DueIn(due, "reset"))
    <3>1. TAKE j \in DOMAIN bound
    <3>2. CASE j = i
      BY <1>8, <1>13, <3>2 DEF rest
    <3>3. CASE j # i
      <4>1. Good(j, widget[j], shared_cell, j \in stray, j \in stuck,
                 j \in DueIn(calls_due, "display"), j \in DueIn(calls_due, "reset"))
        BY DEF WidgetInv, AllGood, Due
      <4>2. /\ j \in stray' <=> j \in stray
            /\ j \in DueIn(due, "display") <=> j \in DueIn(calls_due, "display")
            /\ j \in DueIn(due, "reset") <=> j \in DueIn(calls_due, "reset")
        BY <1>12, <3>3
      <4>3. QED
        BY <1>8, <3>3, <4>1, <4>2
    <3>4. QED
      BY <3>2, <3>3
  <2>2. QED
    BY <2>1, GoodNext DEF due
<1>15. AllLive'
  <2>1. \A j \in DOMAIN bound :
            j \in DueIn(due, "enable") \/ bound[j] \in {"reveal", "popup"} \/ widget'[j].live = enabled
    BY <1>8, <1>12, <1>13 DEF WidgetInv, AllLive, Due, rest
  <2>2. QED
    BY <2>1 DEF AllLive, Due, DueIn, due
<1>16. FlagsDue'
  <2>1. \A j \in DOMAIN bound :
            bound[j] = "tab_group" /\ widget'[j].flag => j \in stuck \/ j \in DueIn(due, "clear")
    BY <1>7, <1>8, <1>12 DEF WidgetInv, FlagsDue, Due, rest
  <2>2. QED
    BY <2>1 DEF FlagsDue, Due, DueIn, due
<1>17. CallsOnlyCell'
  <2>1. \A c \in ToSet(due) :
            /\ c.op = "display" => c.v = shared_cell
            /\ c.op = "reset" => bound[c.i] = "popup"
    BY <1>1, <1>7 DEF WidgetInv, CallsOnlyCell
  <2>2. QED
    BY <2>1 DEF CallsOnlyCell, due
<1>18. LayoutLast(calls_due)'
  BY <1>7 DEF due, LayoutLast
<1>19. QED
  BY <1>2, <1>8, <1>9, <1>14, <1>15, <1>16, <1>17, <1>18

\* The widget whose call is the next.
LEMMA HeadOf ==
    ASSUME WidgetInv, calls_due # <<>>, NEW i, i = Head(calls_due).i
    PROVE  /\ platform \in {"win", "mac"} /\ items \in W!Menus /\ shared_cell \in W!CellValue
           /\ i \in DOMAIN bound /\ bound[i] \in W!Kind /\ DOMAIN widget[i] = WidgetFields
           /\ bound[i] = "radio_button" => i \in {1, 2}
           /\ bound[i] = "popup" => widget[i].last \in W!Value
           /\ Head(calls_due) \in WidgetCall /\ Tail(calls_due) \in Seq(WidgetCall)
           /\ ToSet(calls_due) = {Head(calls_due)} \cup ToSet(Tail(calls_due))
           /\ \A op : i \in DueIn(calls_due, op) <=>
                          Head(calls_due).op = op \/ i \in DueIn(Tail(calls_due), op)
           /\ Good(i, widget[i], shared_cell, i \in stray, i \in stuck,
                   i \in DueIn(calls_due, "display"), i \in DueIn(calls_due, "reset"))
           /\ i \in DueIn(calls_due, "enable") \/ bound[i] \in {"reveal", "popup"}
                  \/ widget[i].live = enabled
           /\ bound[i] = "tab_group" /\ widget[i].flag =>
                  i \in stuck \/ i \in DueIn(calls_due, "clear")
<1>1. /\ calls_due \in Seq(WidgetCall) /\ Head(calls_due) \in WidgetCall
      /\ Tail(calls_due) \in Seq(WidgetCall)
      /\ ToSet(calls_due) = {Head(calls_due)} \cup ToSet(Tail(calls_due))
      /\ \A op : i \in DueIn(calls_due, op) <=>
                     Head(calls_due).op = op \/ i \in DueIn(Tail(calls_due), op)
  BY DueFirst DEF WidgetInv, WidgetTypes
<1>2. i \in DOMAIN bound
  BY <1>1 DEF WidgetCall
<1>3. bound[i] \in W!Kind /\ (bound[i] = "radio_button" => i \in {1, 2})
  <2>1. bound \in Bindings
    BY DEF WidgetInv, WidgetTypes
  <2>2. bound \in Seq(W!Kind) /\ (bound[i] = "radio_button" => i \in {1, 2})
    BY <1>2, <2>1, WidgetConstants
  <2>3. QED
    BY <1>2, <2>2
<1>4. /\ platform \in {"win", "mac"} /\ items \in W!Menus /\ shared_cell \in W!CellValue
      /\ DOMAIN widget[i] = WidgetFields
      /\ bound[i] = "popup" => widget[i].last \in W!Value
  BY <1>2 DEF WidgetInv, WidgetTypes
<1>5. /\ Good(i, widget[i], shared_cell, i \in stray, i \in stuck,
              i \in DueIn(calls_due, "display"), i \in DueIn(calls_due, "reset"))
      /\ i \in DueIn(calls_due, "enable") \/ bound[i] \in {"reveal", "popup"}
             \/ widget[i].live = enabled
      /\ bound[i] = "tab_group" /\ widget[i].flag =>
             i \in stuck \/ i \in DueIn(calls_due, "clear")
  BY <1>2 DEF WidgetInv, AllGood, AllLive, FlagsDue, Due
<1>6. QED
  BY <1>1, <1>2, <1>3, <1>4, <1>5

\* While a call that sets nothing is the next, all that is left sets nothing.
LEMMA HarmlessHead ==
    ASSUME WidgetInv, calls_due # <<>>, Head(calls_due).op \in Harmless
    PROVE  /\ \A c \in ToSet(Tail(calls_due)) : c.op \in Harmless
           /\ writes \in {0, 1}
<1>1. Displaying
  BY DEF WidgetInv, ToldByControl, ToldByUser, AskingModel, Throwing, Harmless
<1>2. ToSet(calls_due) = {Head(calls_due)} \cup ToSet(Tail(calls_due))
  BY HeadOf
<1>3. QED
  BY <1>1, <1>2 DEF Displaying, OnlyHarmless

LEMMA EnableStep ==
    ASSUME WidgetInv, W!call_enable
    PROVE  WidgetInv'
<1> DEFINE i == Head(calls_due).i
           u == W!enable(i, widget[i], enabled)
<1>1. /\ calls_due # <<>> /\ Head(calls_due).op = "enable"
      /\ widget' = [widget EXCEPT ![i] = u] /\ calls_due' = <<>> \o Tail(calls_due)
      /\ UNCHANGED <<platform, bound, shared_cell, enabled, items, writes, stuck>>
      /\ UNCHANGED stray
  BY DEF W!call_enable, W!Next_call, W!AtRest, W!Becomes, W!Quietly
<1>2. i = Head(calls_due).i
  OBVIOUS
<1>3. u = W!enable(i, widget[i], enabled)
  OBVIOUS
<1> HIDE DEF i, u
<1>4. /\ i \in DOMAIN bound /\ bound[i] \in W!Kind /\ DOMAIN widget[i] = WidgetFields
      /\ bound[i] = "popup" => widget[i].last \in W!Value
      /\ Tail(calls_due) \in Seq(WidgetCall)
      /\ Good(i, widget[i], shared_cell, i \in stray, i \in stuck,
              i \in DueIn(calls_due, "display"), i \in DueIn(calls_due, "reset"))
      /\ bound[i] = "tab_group" /\ widget[i].flag => i \in stuck \/ i \in DueIn(calls_due, "clear")
  BY <1>1, <1>2, HeadOf
<1>5. /\ i \in DueIn(calls_due, "display") <=> i \in DueIn(Tail(calls_due), "display")
      /\ i \in DueIn(calls_due, "reset") <=> i \in DueIn(Tail(calls_due), "reset")
      /\ i \in DueIn(calls_due, "clear") <=> i \in DueIn(Tail(calls_due), "clear")
  BY <1>1, <1>2, HeadOf
<1>6. /\ Good(i, u, shared_cell, i \in stray, i \in stuck,
              i \in DueIn(calls_due, "display"), i \in DueIn(calls_due, "reset"))
      /\ DOMAIN u = WidgetFields /\ u.live = enabled /\ u.flag = widget[i].flag
      /\ u.last = widget[i].last
  <2> DEFINE odd == i \in stray
             dead == i \in stuck
             sooner == i \in DueIn(calls_due, "display")
             later == i \in DueIn(calls_due, "reset")
  <2>1. /\ odd \in BOOLEAN /\ dead \in BOOLEAN /\ sooner \in BOOLEAN /\ later \in BOOLEAN
        /\ Good(i, widget[i], shared_cell, odd, dead, sooner, later)
    BY <1>4
  <2> HIDE DEF odd, dead, sooner, later
  <2> DEFINE w == widget[i]
  <2>2. /\ bound[i] \in W!Kind /\ DOMAIN w = WidgetFields
        /\ Good(i, w, shared_cell, odd, dead, sooner, later) /\ u = W!enable(i, w, enabled)
    BY <1>3, <1>4, <2>1
  <2> HIDE DEF w
  <2>3. Good(i, u, shared_cell, odd, dead, sooner, later)
    BY <2>1, <2>2, GoodEnabled
  <2>4. DOMAIN u = WidgetFields /\ u.live = enabled /\ u.flag = w.flag /\ u.last = w.last
    BY <2>1, <2>2, GoodEnabled
  <2>5. QED
    BY <2>3, <2>4 DEF w, odd, dead, sooner, later
<1>7. Good(i, u, shared_cell, i \in stray', i \in stuck,
           i \in DueIn(Tail(calls_due), "display"), i \in DueIn(Tail(calls_due), "reset"))
  BY <1>1, <1>5, <1>6
<1>8. <<>> \in Seq(WidgetCall) /\ \A c \in ToSet(<<>>) : FALSE
  BY DueNone
<1>14. Turns(i, u, <<>>)
  BY <1>1, <1>2, <1>4, <1>5, <1>6, <1>7, <1>8 DEF Turns
<1>9. /\ WidgetTypes' /\ LayoutLast(calls_due)' /\ CallsOnlyCell' /\ FlagsDue'
      /\ AllLive' /\ AllGood'
  BY <1>14, Becoming
<1>10. Displaying'
  <2>1. <<>> \o Tail(calls_due) = Tail(calls_due)
    BY <1>4, ConcatEmptySeq
  <2>2. QED
    BY <1>1, <2>1, HarmlessHead DEF Displaying, OnlyHarmless, Harmless
<1>11. QED
  BY <1>9, <1>10 DEF WidgetInv

\* Clearing a flag keeps a widget good.
LEMMA GoodCleared ==
    ASSUME NEW i, NEW w, NEW c, NEW odd \in BOOLEAN, NEW dead \in BOOLEAN,
           NEW sooner \in BOOLEAN, NEW later \in BOOLEAN, DOMAIN w = WidgetFields,
           Good(i, w, c, odd, dead, sooner, later), NEW r, r = [w EXCEPT !.flag = FALSE]
    PROVE  /\ Good(i, r, c, odd, dead, sooner, later)
           /\ DOMAIN r = WidgetFields /\ r.live = w.live /\ ~r.flag /\ r.last = w.last
<1>1. /\ DOMAIN r = WidgetFields /\ r.live = w.live /\ ~r.flag
      /\ r.last = w.last /\ r.position = w.position /\ r.custom = w.custom /\ r.shown = w.shown
  BY DEF WidgetFields
<1>2. /\ Consistent(i, r) <=> Consistent(i, w)
      /\ W!Agrees(i, r, c) <=> W!Agrees(i, w, c)
  BY <1>1 DEF Consistent, W!Agrees
<1>3. Good(i, r, c, odd, dead, sooner, later)
  BY <1>1, <1>2
     DEF Good, AgreesLater, RemembersCell, ShowsRemembered, SliderPlaced, CustomChosen, TabUnheard
<1>4. QED
  BY <1>1, <1>3

LEMMA ClearStep ==
    ASSUME WidgetInv, W!clear_flag
    PROVE  WidgetInv'
<1> DEFINE i == Head(calls_due).i
           u == [widget[i] EXCEPT !.flag = FALSE]
<1>1. /\ calls_due # <<>> /\ Head(calls_due).op = "clear"
      /\ widget' = [widget EXCEPT ![i] = u] /\ calls_due' = <<>> \o Tail(calls_due)
      /\ UNCHANGED <<platform, bound, shared_cell, enabled, items, writes, stuck>>
      /\ UNCHANGED stray
  BY DEF W!clear_flag, W!Next_call, W!AtRest, W!Becomes, W!Quietly
<1>2. i = Head(calls_due).i
  OBVIOUS
<1>3. u = [widget[i] EXCEPT !.flag = FALSE]
  OBVIOUS
<1> HIDE DEF i, u
<1>4. /\ i \in DOMAIN bound /\ DOMAIN widget[i] = WidgetFields
      /\ bound[i] = "popup" => widget[i].last \in W!Value
      /\ Tail(calls_due) \in Seq(WidgetCall)
      /\ Good(i, widget[i], shared_cell, i \in stray, i \in stuck,
              i \in DueIn(calls_due, "display"), i \in DueIn(calls_due, "reset"))
      /\ i \in DueIn(calls_due, "enable") \/ bound[i] \in {"reveal", "popup"}
             \/ widget[i].live = enabled
  BY <1>1, <1>2, HeadOf
<1>5. /\ i \in DueIn(calls_due, "display") <=> i \in DueIn(Tail(calls_due), "display")
      /\ i \in DueIn(calls_due, "reset") <=> i \in DueIn(Tail(calls_due), "reset")
      /\ i \in DueIn(calls_due, "enable") <=> i \in DueIn(Tail(calls_due), "enable")
  BY <1>1, <1>2, HeadOf
<1>6. /\ Good(i, u, shared_cell, i \in stray, i \in stuck,
              i \in DueIn(calls_due, "display"), i \in DueIn(calls_due, "reset"))
      /\ DOMAIN u = WidgetFields /\ u.live = widget[i].live /\ ~u.flag
      /\ u.last = widget[i].last
  <2> DEFINE odd == i \in stray
             dead == i \in stuck
             sooner == i \in DueIn(calls_due, "display")
             later == i \in DueIn(calls_due, "reset")
  <2>1. /\ odd \in BOOLEAN /\ dead \in BOOLEAN /\ sooner \in BOOLEAN /\ later \in BOOLEAN
        /\ Good(i, widget[i], shared_cell, odd, dead, sooner, later)
    BY <1>4
  <2> HIDE DEF odd, dead, sooner, later
  <2>2. Good(i, u, shared_cell, odd, dead, sooner, later) /\ DOMAIN u = WidgetFields
            /\ u.live = widget[i].live /\ ~u.flag /\ u.last = widget[i].last
    BY <1>3, <1>4, <2>1, GoodCleared
  <2>3. QED
    BY <2>2 DEF odd, dead, sooner, later
<1>7. Good(i, u, shared_cell, i \in stray', i \in stuck,
           i \in DueIn(Tail(calls_due), "display"), i \in DueIn(Tail(calls_due), "reset"))
  BY <1>1, <1>5, <1>6
<1>8. <<>> \in Seq(WidgetCall) /\ \A c \in ToSet(<<>>) : FALSE
  BY DueNone
<1>9. i \in DueIn(Tail(calls_due), "enable") \/ bound[i] \in {"reveal", "popup"} \/ u.live = enabled
  BY <1>4, <1>5, <1>6
<1>14. Turns(i, u, <<>>)
  BY <1>1, <1>2, <1>4, <1>6, <1>7, <1>8, <1>9 DEF Turns
<1>10. /\ WidgetTypes' /\ LayoutLast(calls_due)' /\ CallsOnlyCell' /\ FlagsDue'
       /\ AllLive' /\ AllGood'
  BY <1>14, Becoming
<1>11. Displaying'
  <2>1. <<>> \o Tail(calls_due) = Tail(calls_due)
    BY <1>4, ConcatEmptySeq
  <2>2. QED
    BY <1>1, <2>1, HarmlessHead DEF Displaying, OnlyHarmless, Harmless
<1>12. QED
  BY <1>10, <1>11 DEF WidgetInv

\* A control is changed, and may tell of it.
LEMMA ShownStep ==
    ASSUME WidgetInv, calls_due # <<>>, Head(calls_due).op \in Harmless,
           NEW i, i = Head(calls_due).i, NEW u, DOMAIN u = WidgetFields, NEW v \in W!Value, NEW made,
           bound[i] = "popup" => u.last \in W!Value,
           \/ made = <<>> /\ (bound[i] = "tab_group" /\ u.flag =>
                                  i \in stuck \/ i \in DueIn(Tail(calls_due), "clear"))
           \/ /\ made = OwnCalls(i, v) /\ u.flag
              /\ bound[i] = "popup" \/ (bound[i] = "tab_group" /\ platform = "mac"),
           widget' = [widget EXCEPT ![i] = u], calls_due' = made \o Tail(calls_due),
           UNCHANGED <<platform, bound, shared_cell, enabled, items, writes, stuck>>,
           \A j : j \in stray' <=> j \in stray /\ ~(j = i /\ W!Agrees(i, u, shared_cell)),
           Good(i, u, shared_cell, i \in stray /\ ~W!Agrees(i, u, shared_cell), i \in stuck,
                i \in DueIn(Tail(calls_due), "display"), i \in DueIn(Tail(calls_due), "reset")),
           i \in DueIn(Tail(calls_due), "enable") \/ bound[i] \in {"reveal", "popup"}
               \/ u.live = enabled
    PROVE  WidgetInv'
<1> DEFINE a == W!Call("changed", i, v)
           b == W!Call("clear", i, v)
           two == <<a, b>>
           one == <<b>>
           rest == Tail(calls_due)
<1>1. /\ i \in DOMAIN bound /\ rest \in Seq(WidgetCall)
      /\ ToSet(calls_due) = {Head(calls_due)} \cup ToSet(rest)
  BY HeadOf
<1>2. /\ a \in WidgetCall /\ a.op = "changed" /\ a.i = i
      /\ b \in WidgetCall /\ b.op = "clear" /\ b.i = i
  BY <1>1 DEF W!Call, WidgetCall, Harmless
<1>3. OwnCalls(i, v) = two
  BY DEF OwnCalls
<1> HIDE DEF a, b
<1>4. /\ two \in Seq(WidgetCall) /\ two # <<>> /\ ToSet(two) = {a, b}
      /\ Head(two) = a /\ Tail(two) = one
      /\ one \in Seq(WidgetCall) /\ ToSet(one) = {b}
  BY <1>2, TwoCalls, OneCall
<1> HIDE DEF one, two
<1>5. /\ made \in Seq(WidgetCall)
      /\ \A c \in ToSet(made) : c.i = i /\ c.op \in {"changed", "clear", "set", "throw"}
  <2>1. <<>> \in Seq(WidgetCall) /\ ToSet(<<>>) = {}
    BY DueNone
  <2>2. made \in Seq(WidgetCall) /\ \A c \in ToSet(made) : c = a \/ c = b
    <3>1. CASE made = <<>>
      BY <2>1, <3>1
    <3>2. CASE made = two
      BY <1>4, <3>2
    <3>3. QED
      BY <1>3, <3>1, <3>2
  <2>3. QED
    BY <1>2, <2>2
<1>6. \A j \in DOMAIN bound \ {i} : j \in stray' <=> j \in stray
  OBVIOUS
<1>7. Good(i, u, shared_cell, i \in stray', i \in stuck,
           i \in DueIn(rest, "display"), i \in DueIn(rest, "reset"))
  <2>1. i \in stray' <=> i \in stray /\ ~W!Agrees(i, u, shared_cell)
    OBVIOUS
  <2>2. QED
    BY <2>1
<1>8. bound[i] = "tab_group" /\ u.flag =>
          i \in stuck \/ i \in DueIn(made, "clear") \/ i \in DueIn(rest, "clear")
  <2>1. made = OwnCalls(i, v) => i \in DueIn(made, "clear")
    BY <1>2, <1>3, <1>4, DueWhich
  <2>2. QED
    BY <2>1
<1>15. Turns(i, u, made)
  BY <1>5, <1>6, <1>7, <1>8 DEF Turns
<1>9. /\ WidgetTypes' /\ LayoutLast(calls_due)' /\ CallsOnlyCell' /\ FlagsDue'
      /\ AllLive' /\ AllGood' /\ widget'[i] = u
  BY <1>15, Becoming
<1> HIDE DEF rest
<1>10. (\A c \in ToSet(rest) : c.op \in Harmless) /\ writes \in {0, 1}
  BY HarmlessHead DEF rest
<1>11. calls_due' = made \o rest
  BY DEF rest
<1>12. CASE made = <<>>
  <2>1. calls_due' = rest
    BY <1>1, <1>11, <1>12, ConcatEmptySeq
  <2>2. Displaying'
    BY <1>10, <2>1 DEF Displaying, OnlyHarmless, Harmless
  <2>3. QED
    BY <1>9, <2>2 DEF WidgetInv
<1>13. CASE /\ made = OwnCalls(i, v) /\ u.flag
            /\ bound[i] = "popup" \/ (bound[i] = "tab_group" /\ platform = "mac")
  <2>1. /\ made \o rest # <<>> /\ Head(made \o rest) = a /\ Tail(made \o rest) = one \o rest
    BY <1>1, <1>3, <1>4, <1>13, ConcatHead
  <2>2. ToSet(one \o rest) = {b} \cup ToSet(rest)
    BY <1>1, <1>4, ConcatToSet
  <2> DEFINE due == calls_due'
             more == Tail(due)
  <2>3. due # <<>> /\ Head(due) = a /\ ToSet(more) = {b} \cup ToSet(rest)
    BY <1>11, <2>1, <2>2
  <2> HIDE DEF more
  <2>4. \A c \in ToSet(more) : c.op \in Harmless
    BY <1>2, <1>10, <2>3 DEF Harmless
  <2>5. ToldByControl'
    BY <1>2, <1>9, <1>10, <1>13, <2>3, <2>4 DEF ToldByControl, OnlyHarmless, Harmless, more
  <2>6. QED
    BY <1>9, <2>5 DEF WidgetInv
<1>14. QED
  BY <1>12, <1>13

LEMMA DisplayStep ==
    ASSUME WidgetInv, W!call_display
    PROVE  WidgetInv'
<1> DEFINE i == Head(calls_due).i
           v == Head(calls_due).v
           result == W!display(i, widget[i], v)
           u == result[1]
           made == result[2]
<1>1. /\ calls_due # <<>> /\ Head(calls_due).op = "display"
      /\ widget' = [widget EXCEPT ![i] = u] /\ calls_due' = made \o Tail(calls_due)
      /\ UNCHANGED <<platform, bound, shared_cell, enabled, items, writes, stuck>>
      /\ stray' = IF W!Agrees(i, u, shared_cell) THEN stray \ {i} ELSE stray
  BY DEF W!call_display, W!Next_call, W!AtRest, W!Becomes, W!InStep
<1> DEFINE w == widget[i]
<1>2. i = Head(calls_due).i /\ v = Head(calls_due).v
  OBVIOUS
<1>3. /\ platform \in {"win", "mac"} /\ items \in W!Menus /\ bound[i] \in W!Kind
      /\ DOMAIN w = WidgetFields /\ Head(calls_due) \in WidgetCall
      /\ ToSet(calls_due) = {Head(calls_due)} \cup ToSet(Tail(calls_due))
      /\ Good(i, w, shared_cell, i \in stray, i \in stuck,
              i \in DueIn(calls_due, "display"), i \in DueIn(calls_due, "reset"))
      /\ i \in DueIn(calls_due, "enable") \/ bound[i] \in {"reveal", "popup"} \/ w.live = enabled
      /\ bound[i] = "tab_group" /\ w.flag => i \in stuck \/ i \in DueIn(calls_due, "clear")
  BY <1>1, HeadOf
<1>4. /\ i \in DueIn(calls_due, "display")
      /\ i \in DueIn(calls_due, "reset") <=> i \in DueIn(Tail(calls_due), "reset")
      /\ i \in DueIn(calls_due, "enable") <=> i \in DueIn(Tail(calls_due), "enable")
      /\ i \in DueIn(calls_due, "clear") <=> i \in DueIn(Tail(calls_due), "clear")
  BY <1>1, HeadOf
<1>5. v = shared_cell /\ v \in W!Value
  BY <1>1, <1>3 DEF WidgetInv, CallsOnlyCell, WidgetCall
<1>6. result = W!display(i, w, v)
  OBVIOUS
<1>7. u = result[1] /\ made = result[2] /\ u = W!display(i, w, v)[1]
  OBVIOUS
<1> HIDE DEF i, v, w, result, u, made
<1>8. Told(i, w, v, result)
  BY <1>3, <1>6, DisplayTells
<1>9. /\ DOMAIN u = WidgetFields /\ u.live = w.live
      /\ \/ made = <<>> /\ (bound[i] = "tab_group" => u.flag = w.flag)
         \/ /\ made = OwnCalls(i, v) /\ u.flag
            /\ bound[i] = "popup" \/ (bound[i] = "tab_group" /\ platform = "mac")
  BY <1>7, <1>8 DEF Told
<1> DEFINE odd == i \in stray
           dead == i \in stuck
           sooner == i \in DueIn(Tail(calls_due), "display")
           later == i \in DueIn(Tail(calls_due), "reset")
           still == odd /\ ~W!Agrees(i, u, v)
<1>18. /\ odd \in BOOLEAN /\ dead \in BOOLEAN /\ sooner \in BOOLEAN /\ later \in BOOLEAN
       /\ still \in BOOLEAN
  OBVIOUS
<1>10. Good(i, w, v, odd, dead, TRUE, later)
  <2>1. Good(i, w, v, odd, dead, i \in DueIn(calls_due, "display"), i \in DueIn(calls_due, "reset"))
    BY <1>3, <1>5
  <2>2. /\ (i \in DueIn(calls_due, "display")) = TRUE
        /\ (i \in DueIn(calls_due, "reset")) = later
    BY <1>4
  <2>3. Good(i, w, v, odd, dead, TRUE, later)
    BY <2>1, <2>2
  <2>4. QED
    BY <2>3
<1> HIDE DEF odd, dead, sooner, later
<1>11. Good(i, u, v, still, dead, FALSE, later)
  BY <1>3, <1>7, <1>10, <1>18, GoodDisplayed
<1> HIDE DEF still
<1>20. bound[i] = "popup" => u.last \in W!Value
  BY <1>3, <1>5, <1>6, <1>7, DisplayPopup, PopupFields
<1>12. Good(i, u, v, still, dead, sooner, later)
  BY <1>18, <1>11
     DEF Good, AgreesLater, RemembersCell, ShowsRemembered, SliderPlaced, CustomChosen, TabUnheard
<1>13. Good(i, u, shared_cell, i \in stray /\ ~W!Agrees(i, u, shared_cell), i \in stuck,
            i \in DueIn(Tail(calls_due), "display"), i \in DueIn(Tail(calls_due), "reset"))
  BY <1>5, <1>12 DEF odd, dead, sooner, later, still
<1>14. i \in DueIn(Tail(calls_due), "enable") \/ bound[i] \in {"reveal", "popup"} \/ u.live = enabled
  BY <1>3, <1>4, <1>9
<1>15. \/ made = <<>> /\ (bound[i] = "tab_group" /\ u.flag =>
                              i \in stuck \/ i \in DueIn(Tail(calls_due), "clear"))
       \/ /\ made = OwnCalls(i, v) /\ u.flag
          /\ bound[i] = "popup" \/ (bound[i] = "tab_group" /\ platform = "mac")
  BY <1>3, <1>4, <1>9
<1>16. Head(calls_due).op \in Harmless
  BY <1>1 DEF Harmless
<1>19. \A j : j \in stray' <=> j \in stray /\ ~(j = i /\ W!Agrees(i, u, shared_cell))
  BY <1>1
<1>17. QED
  BY <1>1, <1>2, <1>5, <1>19, <1>9, <1>13, <1>14, <1>15, <1>16, <1>20, ShownStep

LEMMA ResetStep ==
    ASSUME WidgetInv, W!call_reset
    PROVE  WidgetInv'
<1> DEFINE i == Head(calls_due).i
           w == widget[i]
           result == W!reset_menu_item_set(i, w)
           u == result[1]
           made == result[2]
<1>1. /\ calls_due # <<>> /\ Head(calls_due).op = "reset"
      /\ widget' = [widget EXCEPT ![i] = u] /\ calls_due' = made \o Tail(calls_due)
      /\ UNCHANGED <<platform, bound, shared_cell, enabled, items, writes, stuck>>
      /\ stray' = IF W!Agrees(i, u, shared_cell) THEN stray \ {i} ELSE stray
  BY DEF W!call_reset, W!Next_call, W!AtRest, W!Becomes, W!InStep
<1>2. i = Head(calls_due).i /\ w = widget[i]
  OBVIOUS
<1>3. u = W!reset_menu_item_set(i, w)[1] /\ made = W!reset_menu_item_set(i, w)[2]
  OBVIOUS
<1> HIDE DEF i, w, result, u, made
<1>4. /\ platform \in {"win", "mac"} /\ items \in W!Menus
      /\ DOMAIN w = WidgetFields /\ Head(calls_due) \in WidgetCall
      /\ bound[i] = "popup" => w.last \in W!Value
      /\ ToSet(calls_due) = {Head(calls_due)} \cup ToSet(Tail(calls_due))
      /\ Good(i, w, shared_cell, i \in stray, i \in stuck,
              i \in DueIn(calls_due, "display"), i \in DueIn(calls_due, "reset"))
  BY <1>1, <1>2, HeadOf
<1>5. i \in DueIn(calls_due, "display") <=> i \in DueIn(Tail(calls_due), "display")
  BY <1>1, <1>2, HeadOf
<1>6. bound[i] = "popup"
  BY <1>1, <1>2, <1>4 DEF WidgetInv, CallsOnlyCell
<1>7. /\ DOMAIN u = WidgetFields /\ u.last = w.last
      /\ made = <<>> \/ (made = OwnCalls(i, w.last) /\ u.flag)
  BY <1>3, <1>4, <1>6, ResetFields
<1> DEFINE odd == i \in stray
           dead == i \in stuck
           sooner == i \in DueIn(calls_due, "display")
           later == i \in DueIn(calls_due, "reset")
           still == odd /\ ~W!Agrees(i, u, shared_cell)
           last_due == i \in DueIn(Tail(calls_due), "reset")
<1>8. /\ odd \in BOOLEAN /\ dead \in BOOLEAN /\ sooner \in BOOLEAN /\ later \in BOOLEAN
      /\ still \in BOOLEAN /\ last_due \in BOOLEAN
  OBVIOUS
<1>9. Good(i, w, shared_cell, odd, dead, sooner, later)
  BY <1>4
<1> HIDE DEF odd, dead, sooner, later, last_due
<1>10. Good(i, u, shared_cell, still, dead, sooner, FALSE)
  <2>1. u = W!reset_menu_item_set(i, w)[1]
    BY <1>3
  <2>2. /\ platform \in {"win", "mac"} /\ items \in W!Menus /\ DOMAIN w = WidgetFields
        /\ bound[i] = "popup"
    BY <1>4, <1>6
  <2>3. Resets(i, w, shared_cell, odd, dead, sooner, later, u)
    BY <2>1, <2>2, <1>8, <1>9 DEF Resets
  <2>4. QED
    BY <2>3, GoodReset
<1> HIDE DEF still
<1>11. Good(i, u, shared_cell, still, dead, sooner, last_due)
  BY <1>8, <1>10
     DEF Good, AgreesLater, RemembersCell, ShowsRemembered, SliderPlaced, CustomChosen, TabUnheard
<1>12. Good(i, u, shared_cell, i \in stray /\ ~W!Agrees(i, u, shared_cell), i \in stuck,
            i \in DueIn(calls_due, "display"), i \in DueIn(Tail(calls_due), "reset"))
  BY <1>11 DEF odd, dead, sooner, last_due, still
<1>13. Good(i, u, shared_cell, i \in stray /\ ~W!Agrees(i, u, shared_cell), i \in stuck,
            i \in DueIn(Tail(calls_due), "display"), i \in DueIn(Tail(calls_due), "reset"))
  BY <1>5, <1>12
<1>14. \A j : j \in stray' <=> j \in stray /\ ~(j = i /\ W!Agrees(i, u, shared_cell))
  BY <1>1
<1>15. Head(calls_due).op \in Harmless
  BY <1>1 DEF Harmless
<1>16. w.last \in W!Value
  BY <1>4, <1>6
<1>17. QED
  BY <1>1, <1>2, <1>6, <1>7, <1>13, <1>14, <1>15, <1>16, ShownStep

\* Nothing changes but that fewer calls are due.
LEMMA LayoutStep ==
    ASSUME WidgetInv, W!layout_behavior
    PROVE  WidgetInv'
<1> DEFINE rest == Tail(calls_due)
           due == calls_due'
<1>1. /\ calls_due # <<>> /\ Head(calls_due).op = "layout"
      /\ due = rest
      /\ UNCHANGED <<platform, bound, widget, shared_cell, enabled, items, writes, stray, stuck>>
  BY DEF W!layout_behavior, W!Next_call, W!AtRest
<1>2. /\ calls_due \in Seq(WidgetCall) /\ rest \in Seq(WidgetCall)
      /\ ToSet(calls_due) = {Head(calls_due)} \cup ToSet(rest)
      /\ \A op : op # "layout" => DueIn(calls_due, op) = DueIn(rest, op)
  <2>1. calls_due \in Seq(WidgetCall)
    BY DEF WidgetInv, WidgetTypes
  <2>2. /\ rest \in Seq(WidgetCall) /\ ToSet(calls_due) = {Head(calls_due)} \cup ToSet(rest)
        /\ \A op : DueIn(calls_due, op) =
              (IF Head(calls_due).op = op THEN {Head(calls_due).i} ELSE {}) \cup DueIn(rest, op)
    BY <1>1, <2>1, DueFirst
  <2>3. QED
    BY <1>1, <2>1, <2>2
<1>3. LayoutLast(rest)
  BY <1>1, <1>2, LayoutTail DEF WidgetInv
<1>4. (\A c \in ToSet(rest) : c.op \in Harmless) /\ writes \in {0, 1}
  BY <1>1, HarmlessHead DEF Harmless
<1> HIDE DEF rest, due
<1>5. WidgetTypes'
  <2>1. WidgetCall' = WidgetCall /\ W!CellValue' = W!CellValue
    BY <1>1, CellValues DEF WidgetCall
  <2>2. due \in Seq(WidgetCall)
    BY <1>1, <1>2
  <2>3. QED
    BY <1>1, <2>1, <2>2 DEF WidgetInv, WidgetTypes, due
<1>6. LayoutLast(calls_due)'
  BY <1>1, <1>3 DEF LayoutLast, due
<1>7. CallsOnlyCell'
  <2>1. \A c \in ToSet(due) :
            /\ c.op = "display" => c.v = shared_cell
            /\ c.op = "reset" => bound[c.i] = "popup"
    BY <1>1, <1>2 DEF WidgetInv, CallsOnlyCell
  <2>2. QED
    BY <1>1, <2>1 DEF CallsOnlyCell, due
<1>8. \A op : op # "layout" => DueIn(calls_due, op) = DueIn(due, op)
  BY <1>1, <1>2
<1>9. FlagsDue'
  <2>1. \A j \in DOMAIN bound :
            bound[j] = "tab_group" /\ widget[j].flag => j \in stuck \/ j \in DueIn(due, "clear")
    BY <1>8 DEF WidgetInv, FlagsDue, Due
  <2>2. QED
    BY <1>1, <2>1 DEF FlagsDue, Due, DueIn, due
<1>10. AllLive'
  <2>1. \A j \in DOMAIN bound :
            j \in DueIn(due, "enable") \/ bound[j] \in {"reveal", "popup"} \/ widget[j].live = enabled
    BY <1>8 DEF WidgetInv, AllLive, Due
  <2>2. QED
    BY <1>1, <2>1 DEF AllLive, Due, DueIn, due
<1>11. AllGood'
  <2>1. \A j \in DOMAIN bound :
            Good(j, widget[j], shared_cell, j \in stray, j \in stuck,
                 j \in DueIn(calls_due, "display"), j \in DueIn(calls_due, "reset"))
    BY DEF WidgetInv, AllGood, Due
  <2>2. DueIn(calls_due, "display") = DueIn(due, "display")
        /\ DueIn(calls_due, "reset") = DueIn(due, "reset")
    BY <1>8
  <2>3. \A j \in DOMAIN bound :
            Good(j, widget'[j], shared_cell', j \in stray', j \in stuck',
                 j \in DueIn(due, "display"), j \in DueIn(due, "reset"))
    BY <1>1, <2>1, <2>2
  <2>4. QED
    BY <1>1, <2>3, GoodNext DEF due
<1>12. Displaying'
  BY <1>1, <1>4 DEF Displaying, OnlyHarmless, Harmless, due
<1>13. QED
  BY <1>5, <1>6, <1>7, <1>9, <1>10, <1>11, <1>12 DEF WidgetInv

\* When an exception ends the calls, none that displays, enables or resets was left.
LEMMA ThrowStep ==
    ASSUME WidgetInv, W!throw
    PROVE  WidgetInv'
<1> DEFINE flagged == {i \in DOMAIN bound : bound[i] = "tab_group" /\ widget[i].flag}
           due == calls_due'
           rest == Tail(calls_due)
<1>1. /\ calls_due # <<>> /\ (Head(calls_due).op = "layout" \/ Head(calls_due).op = "throw")
      /\ due = <<>> /\ stuck' = stuck \cup flagged
      /\ UNCHANGED <<platform, bound, widget, shared_cell, enabled, items, writes, stray>>
  BY DEF W!throw, W!Next_call, W!AtRest
<1>2. /\ calls_due \in Seq(WidgetCall) /\ rest \in Seq(WidgetCall)
      /\ ToSet(calls_due) = {Head(calls_due)} \cup ToSet(rest)
  <2>1. calls_due \in Seq(WidgetCall)
    BY DEF WidgetInv, WidgetTypes
  <2>2. QED
    BY <1>1, <2>1, DueFirst
<1>3. (\A c \in ToSet(rest) : c.op = "clear") /\ writes \in {0, 1}
  <2>1. CASE Head(calls_due).op = "layout"
    <3>1. \A c \in ToSet(rest) : c.op = "clear"
      BY <1>1, <1>2, <2>1, LayoutTail DEF WidgetInv
    <3>2. writes \in {0, 1}
      BY <1>1, <2>1, HarmlessHead DEF Harmless
    <3>3. QED
      BY <3>1, <3>2
  <2>2. CASE Head(calls_due).op = "throw"
    <3>1. ~Displaying
      BY <1>2, <2>2 DEF Displaying, OnlyHarmless, Harmless
    <3>2. Throwing
      BY <2>2, <3>1 DEF WidgetInv, ToldByControl, ToldByUser, AskingModel
    <3>3. ToSet(rest) = {}
      BY <3>2, DueNone DEF Throwing
    <3>4. QED
      BY <3>2, <3>3 DEF Throwing
  <2>3. QED
    BY <1>1, <2>1, <2>2
<1>4. \A op \in {"display", "reset", "enable"} : DueIn(calls_due, op) = {}
  BY <1>1, <1>2, <1>3 DEF DueIn
<1>5. due \in Seq(WidgetCall) /\ ToSet(due) = {} /\ \A op : DueIn(due, op) = {}
  BY <1>1, DueNone
<1> HIDE DEF rest, due
<1>6. WidgetTypes'
  <2>1. WidgetCall' = WidgetCall /\ W!CellValue' = W!CellValue
    BY <1>1, CellValues DEF WidgetCall
  <2>2. QED
    BY <1>1, <1>5, <2>1 DEF WidgetInv, WidgetTypes, due
<1>7. LayoutLast(calls_due)'
  <2>1. LayoutLast(due)
    BY <1>5, LayoutBefore
  <2>2. QED
    BY <2>1 DEF LayoutLast, due
<1>8. CallsOnlyCell'
  BY <1>5 DEF CallsOnlyCell, due
<1>9. FlagsDue'
  <2>1. \A j \in DOMAIN bound : bound[j] = "tab_group" /\ widget[j].flag => j \in stuck'
    BY <1>1
  <2>2. QED
    BY <1>1, <2>1 DEF FlagsDue
<1>10. AllLive'
  <2>1. \A j \in DOMAIN bound : bound[j] \in {"reveal", "popup"} \/ widget[j].live = enabled
    BY <1>4 DEF WidgetInv, AllLive, Due
  <2>2. QED
    BY <1>1, <2>1 DEF AllLive
<1>11. AllGood'
  <2>1. ASSUME NEW j \in DOMAIN bound
        PROVE  Good(j, widget[j], shared_cell, j \in stray, j \in stuck', FALSE, FALSE)
    <3> DEFINE odd == j \in stray
               dead == j \in stuck
               dead_too == j \in stuck'
    <3>1. odd \in BOOLEAN /\ dead \in BOOLEAN /\ dead_too \in BOOLEAN /\ (dead => dead_too)
      BY <1>1
    <3>2. Good(j, widget[j], shared_cell, odd, dead, FALSE, FALSE)
      <4>1. Good(j, widget[j], shared_cell, odd, dead, j \in DueIn(calls_due, "display"),
                 j \in DueIn(calls_due, "reset"))
        BY DEF WidgetInv, AllGood, Due
      <4>2. (j \in DueIn(calls_due, "display")) = FALSE /\ (j \in DueIn(calls_due, "reset")) = FALSE
        BY <1>4
      <4>3. QED
        BY <4>1, <4>2
    <3> HIDE DEF odd, dead, dead_too
    <3>3. Good(j, widget[j], shared_cell, odd, dead_too, FALSE, FALSE)
      BY <3>1, <3>2
         DEF Good, AgreesLater, RemembersCell, ShowsRemembered, SliderPlaced, CustomChosen, TabUnheard
    <3>4. QED
      BY <3>3 DEF odd, dead_too
  <2>2. \A j \in DOMAIN bound :
            Good(j, widget'[j], shared_cell', j \in stray', j \in stuck',
                 j \in DueIn(due, "display"), j \in DueIn(due, "reset"))
    <3>1. TAKE j \in DOMAIN bound
    <3>2. (j \in DueIn(due, "display")) = FALSE /\ (j \in DueIn(due, "reset")) = FALSE
      BY <1>5
    <3>3. QED
      BY <1>1, <2>1, <3>2
  <2>3. QED
    BY <1>1, <2>2, GoodNext DEF due
<1>12. Displaying'
  BY <1>1, <1>3, <1>5 DEF Displaying, OnlyHarmless, due
<1>13. QED
  BY <1>6, <1>7, <1>8, <1>9, <1>10, <1>11, <1>12 DEF WidgetInv

LEMMA AskingNext ==
    ASSUME platform' = platform, bound' = bound, items' = items,
           calls_due' # <<>>, Head(calls_due').op = "set", writes' = 0,
           \A c \in ToSet(Tail(calls_due')) : c.op = "clear" /\ c.i = Head(calls_due').i,
           Asking(Head(calls_due').i, widget'[Head(calls_due').i], shared_cell',
                  Head(calls_due').v, Head(calls_due').i \in stray')
    PROVE  AskingModel'
BY AskingKept DEF AskingModel

\* The program changed the control, and its handler, called within, does nothing.
LEMMA SilentStep ==
    ASSUME WidgetInv, W!call_handler, ToldByControl
    PROVE  WidgetInv'
<1> DEFINE i == Head(calls_due).i
           w == widget[i]
<1>2. i = Head(calls_due).i /\ w = widget[i]
  OBVIOUS
<1>4. calls_due # <<>>
  BY DEF ToldByControl
<1>5. /\ platform \in {"win", "mac"} /\ i \in DOMAIN bound /\ DOMAIN w = WidgetFields
      /\ bound[i] = "popup" => w.last \in W!Value
      /\ Tail(calls_due) \in Seq(WidgetCall)
      /\ Good(i, w, shared_cell, i \in stray, i \in stuck,
              i \in DueIn(calls_due, "display"), i \in DueIn(calls_due, "reset"))
      /\ i \in DueIn(calls_due, "enable") \/ bound[i] \in {"reveal", "popup"}
             \/ w.live = enabled
      /\ bound[i] = "tab_group" /\ w.flag => i \in stuck \/ i \in DueIn(calls_due, "clear")
  BY <1>4, HeadOf
<1>6. /\ i \in DueIn(calls_due, "display") <=> i \in DueIn(Tail(calls_due), "display")
      /\ i \in DueIn(calls_due, "reset") <=> i \in DueIn(Tail(calls_due), "reset")
      /\ i \in DueIn(calls_due, "enable") <=> i \in DueIn(Tail(calls_due), "enable")
      /\ i \in DueIn(calls_due, "clear") <=> i \in DueIn(Tail(calls_due), "clear")
  BY <1>4, HeadOf DEF ToldByControl
<1>7. W!handler(i, w) = <<w, <<>>>>
  <2>1. w.flag /\ (bound[i] = "popup" \/ (bound[i] = "tab_group" /\ platform = "mac"))
    BY DEF ToldByControl
  <2> HIDE DEF w, i
  <2>2. QED
    BY <1>5, <2>1, HandlerSilent
<1>15. /\ widget' = [widget EXCEPT ![i] = W!handler(i, w)[1]]
       /\ calls_due' = W!handler(i, w)[2] \o Tail(calls_due)
       /\ UNCHANGED <<platform, bound, shared_cell, enabled, items, writes, stuck>>
       /\ UNCHANGED stray
  BY DEF W!call_handler, W!Becomes
<1> HIDE DEF i, w
<1>8. /\ widget' = [widget EXCEPT ![i] = w] /\ calls_due' = <<>> \o Tail(calls_due)
      /\ UNCHANGED <<platform, bound, shared_cell, enabled, items, writes, stuck>>
      /\ UNCHANGED stray
  BY <1>7, <1>15
<1>9. Good(i, w, shared_cell, i \in stray', i \in stuck,
           i \in DueIn(Tail(calls_due), "display"), i \in DueIn(Tail(calls_due), "reset"))
  BY <1>5, <1>6, <1>8
<1>10. <<>> \in Seq(WidgetCall) /\ \A c \in ToSet(<<>>) : FALSE
  BY DueNone
<1>11. Turns(i, w, <<>>)
  BY <1>2, <1>4, <1>5, <1>6, <1>8, <1>9, <1>10 DEF Turns
<1>12. /\ WidgetTypes' /\ LayoutLast(calls_due)' /\ CallsOnlyCell' /\ FlagsDue'
       /\ AllLive' /\ AllGood'
  BY <1>11, Becoming
<1>13. Displaying'
  <2>1. <<>> \o Tail(calls_due) = Tail(calls_due)
    BY <1>5, ConcatEmptySeq
  <2>2. QED
    BY <1>8, <2>1 DEF ToldByControl, Displaying, OnlyHarmless, Harmless
<1>14. QED
  BY <1>12, <1>13 DEF WidgetInv

\* The user acted, and the handler asks the model.
LEMMA AskStep ==
    ASSUME WidgetInv, W!call_handler, ToldByUser
    PROVE  WidgetInv'
<1> DEFINE i == Head(calls_due).i
           w == widget[i]
<1>2. i = Head(calls_due).i /\ w = widget[i]
  OBVIOUS
<1>4. calls_due # <<>> /\ Tail(calls_due) = <<>> /\ writes = 0 /\ Head(calls_due).op = "changed"
  BY DEF ToldByUser
<1>5. /\ platform \in {"win", "mac"} /\ i \in DOMAIN bound /\ bound[i] \in W!Kind
      /\ DOMAIN w = WidgetFields /\ items \in W!Menus /\ shared_cell \in W!CellValue
      /\ bound[i] = "radio_button" => i \in {1, 2}
      /\ bound[i] = "popup" => w.last \in W!Value
      /\ Good(i, w, shared_cell, i \in stray, i \in stuck,
              i \in DueIn(calls_due, "display"), i \in DueIn(calls_due, "reset"))
      /\ i \in DueIn(calls_due, "enable") \/ bound[i] \in {"reveal", "popup"}
             \/ w.live = enabled
      /\ bound[i] = "tab_group" /\ w.flag => i \in stuck \/ i \in DueIn(calls_due, "clear")
  BY <1>4, HeadOf
<1>6. /\ (i \in DueIn(calls_due, "display")) = FALSE /\ (i \in DueIn(calls_due, "reset")) = FALSE
      /\ i \notin DueIn(calls_due, "enable") /\ i \notin DueIn(calls_due, "clear")
      /\ (i \in DueIn(Tail(calls_due), "display")) = FALSE
      /\ (i \in DueIn(Tail(calls_due), "reset")) = FALSE
  <2>1. \A op : i \in DueIn(calls_due, op) <=>
                    Head(calls_due).op = op \/ i \in DueIn(Tail(calls_due), op)
    BY <1>4, HeadOf
  <2>2. \A op : DueIn(Tail(calls_due), op) = {}
    BY <1>4, DueNone
  <2>3. QED
    BY <1>4, <2>1, <2>2
<1>7. Acted(i, w, i \in stray)
  BY DEF ToldByUser
<1>8. /\ widget' = [widget EXCEPT ![i] = W!handler(i, w)[1]]
      /\ calls_due' = W!handler(i, w)[2] \o Tail(calls_due)
      /\ UNCHANGED <<platform, bound, shared_cell, enabled, items, writes, stuck>>
      /\ UNCHANGED stray
  BY DEF W!call_handler, W!Becomes
<1> HIDE DEF i, w
<1>9. Good(i, w, shared_cell, i \in stray, i \in stuck, FALSE, FALSE)
  BY <1>5, <1>6
<1>10. Handles(i, w, shared_cell, i \in stray, i \in stuck)
  <2> DEFINE odd == i \in stray
             dead == i \in stuck
  <2>1. odd \in BOOLEAN /\ dead \in BOOLEAN
    OBVIOUS
  <2>2. Good(i, w, shared_cell, odd, dead, FALSE, FALSE) /\ Acted(i, w, odd)
    BY <1>7, <1>9
  <2> HIDE DEF odd, dead
  <2>3. Handles(i, w, shared_cell, odd, dead)
    BY <1>5, <2>1, <2>2, HandlerAsks
  <2>4. QED
    BY <2>3 DEF odd, dead
<1>11. PICK u, made : /\ W!handler(i, w) = <<u, made>>
                      /\ Good(i, u, shared_cell, i \in stray, i \in stuck, FALSE, FALSE)
                      /\ Handled(i, w, shared_cell, i \in stray, u, made)
  BY <1>10 DEF Handles
<1>12. /\ widget' = [widget EXCEPT ![i] = u] /\ calls_due' = made \o Tail(calls_due)
  BY <1>8, <1>11
<1>13. /\ DOMAIN u = WidgetFields /\ u.live = w.live /\ (bound[i] = "popup" => u = w)
       /\ \/ made = <<>> /\ u.flag = w.flag
          \/ Asked(i, w, shared_cell, i \in stray, u, made)
          \/ made = <<W!Call("throw", i, none)>> /\ u.flag = w.flag
  BY <1>11 DEF Handled
<1>14. SUFFICES /\ made \in Seq(WidgetCall)
                /\ \A c \in ToSet(made) : c.i = i /\ c.op \in {"changed", "clear", "set", "throw"}
                /\ bound[i] = "tab_group" /\ u.flag => i \in stuck \/ i \in DueIn(made, "clear")
                /\ calls_due' = made /\ widget'[i] = u => Displaying' \/ AskingModel' \/ Throwing'
  <2>1. Turns(i, u, made)
    <3>1. Good(i, u, shared_cell, i \in stray', i \in stuck,
               i \in DueIn(Tail(calls_due), "display"), i \in DueIn(Tail(calls_due), "reset"))
      BY <1>6, <1>8, <1>11
    <3>2. bound[i] = "popup" => u.last \in W!Value
      BY <1>5, <1>13
    <3>3. bound[i] \in {"reveal", "popup"} \/ u.live = enabled
      BY <1>5, <1>6, <1>13
    <3>4. QED
      BY <1>2, <1>4, <1>8, <1>12, <1>13, <1>14, <3>1, <3>2, <3>3 DEF Turns
  <2>2. /\ WidgetTypes' /\ LayoutLast(calls_due)' /\ CallsOnlyCell' /\ FlagsDue'
        /\ AllLive' /\ AllGood' /\ widget'[i] = u
    BY <2>1, Becoming
  <2>3. calls_due' = made
    BY <1>4, <1>12, <1>14, ConcatEmptySeq
  <2>4. QED
    BY <1>14, <2>2, <2>3 DEF WidgetInv
<1>15. none \in W!Value
  BY WidgetConstants
<1> DEFINE b == W!Call("clear", i, none)
           t == W!Call("throw", i, none)
<1>16. /\ b \in WidgetCall /\ b.op = "clear" /\ b.i = i
       /\ t \in WidgetCall /\ t.op = "throw" /\ t.i = i
  BY <1>5, <1>15 DEF W!Call, WidgetCall, Harmless
<1>17. CASE made = <<>> /\ u.flag = w.flag
  <2>1. made \in Seq(WidgetCall) /\ ToSet(made) = {}
    BY <1>17, DueNone
  <2>2. calls_due' = made => Displaying'
    BY <1>4, <1>8, <2>1 DEF Displaying, OnlyHarmless
  <2>3. QED
    BY <1>5, <1>6, <1>17, <2>1, <2>2
<1>18. CASE made = <<W!Call("throw", i, none)>> /\ u.flag = w.flag
  <2> DEFINE one == <<t>>
  <2>1. made = one
    BY <1>18
  <2> HIDE DEF t
  <2>2. /\ one \in Seq(WidgetCall) /\ one # <<>> /\ ToSet(one) = {t}
        /\ Head(one) = t /\ Tail(one) = <<>>
    BY <1>16, OneCall
  <2> HIDE DEF one
  <2>3. calls_due' = made => Throwing'
    BY <1>4, <1>8, <1>16, <2>1, <2>2 DEF Throwing
  <2>4. QED
    BY <1>5, <1>6, <1>16, <1>18, <2>1, <2>2, <2>3
<1>19. CASE Asked(i, w, shared_cell, i \in stray, u, made)
  <2>1. PICK v \in W!Value :
            /\ Asking(i, u, shared_cell, v, i \in stray)
            /\ \/ made = <<SetCall(i, v)>> /\ u.flag = w.flag
               \/ made = <<SetCall(i, v), W!Call("clear", i, none)>> /\ bound[i] = "tab_group"
    BY <1>19 DEF Asked
  <2> DEFINE a == SetCall(i, v)
             one == <<a>>
             two == <<a, b>>
             last_one == <<b>>
  <2>2. a \in WidgetCall /\ a.op = "set" /\ a.i = i /\ a.v = v
    BY <1>5 DEF SetCall, W!Call, WidgetCall, Harmless
  <2>3. (made = one /\ u.flag = w.flag) \/ made = two
    BY <2>1
  <2> HIDE DEF a, b
  <2>4. /\ one \in Seq(WidgetCall) /\ one # <<>> /\ ToSet(one) = {a}
        /\ Head(one) = a /\ Tail(one) = <<>>
        /\ two \in Seq(WidgetCall) /\ two # <<>> /\ ToSet(two) = {a, b}
        /\ Head(two) = a /\ Tail(two) = last_one /\ ToSet(last_one) = {b}
    BY <1>16, <2>2, OneCall, TwoCalls
  <2> HIDE DEF one, two, last_one
  <2>5. /\ made \in Seq(WidgetCall) /\ made # <<>> /\ Head(made) = a
        /\ \A c \in ToSet(made) : c = a \/ c = b
        /\ \A c \in ToSet(Tail(made)) : c = b
        /\ made = two => b \in ToSet(made)
    <3>1. ToSet(<<>>) = {}
      BY DueNone
    <3>2. CASE made = one
      BY <1>16, <2>2, <2>4, <3>1, <3>2
    <3>3. CASE made = two
      BY <2>4, <3>3
    <3>4. QED
      BY <2>3, <3>2, <3>3
  <2>6. \A c \in ToSet(made) : c.i = i /\ c.op \in {"changed", "clear", "set", "throw"}
    BY <1>16, <2>2, <2>5
  <2>7. bound[i] = "tab_group" /\ u.flag => i \in stuck \/ i \in DueIn(made, "clear")
    <3>1. made = two => i \in DueIn(made, "clear")
      BY <1>16, <2>5, DueWhich
    <3>2. QED
      BY <1>5, <1>6, <2>3, <3>1
  <2>8. ASSUME calls_due' = made, widget'[i] = u PROVE AskingModel'
    <3>1. Asking(i, u, shared_cell', v, i \in stray')
      BY <1>8, <2>1
    <3>2. /\ calls_due' # <<>> /\ Head(calls_due').op = "set" /\ Head(calls_due').i = i
          /\ Head(calls_due').v = v /\ writes' = 0
          /\ \A c \in ToSet(Tail(calls_due')) : c.op = "clear" /\ c.i = i
      BY <1>4, <1>8, <1>16, <2>2, <2>5, <2>8
    <3>3. Asking(Head(calls_due').i, widget'[Head(calls_due').i], shared_cell',
                 Head(calls_due').v, Head(calls_due').i \in stray')
      BY <2>8, <3>1, <3>2
    <3>4. QED
      BY <1>8, <3>2, <3>3, AskingNext
  <2>9. QED
    BY <2>5, <2>6, <2>7, <2>8
<1>20. QED
  BY <1>13, <1>17, <1>18, <1>19

LEMMA HandlerStep ==
    ASSUME WidgetInv, W!call_handler
    PROVE  WidgetInv'
<1>1. calls_due # <<>> /\ Head(calls_due).op = "changed"
  BY DEF W!call_handler, W!Next_call, W!AtRest
<1>2. Head(calls_due) \in ToSet(calls_due)
  BY <1>1, HeadOf
<1>3. ToldByControl \/ ToldByUser
  BY <1>1, <1>2 DEF WidgetInv, Displaying, OnlyHarmless, Harmless, AskingModel, Throwing
<1>4. QED
  BY <1>3, SilentStep, AskStep

\* When no widget is to be displayed to, reset or enabled.
LEMMA NothingDue ==
    ASSUME WidgetInv, \A op \in {"display", "reset", "enable"} : DueIn(calls_due, op) = {}
    PROVE  \A j \in DOMAIN bound :
               /\ Good(j, widget[j], shared_cell, j \in stray, j \in stuck, FALSE, FALSE)
               /\ bound[j] \in {"reveal", "popup"} \/ widget[j].live = enabled
<1>1. TAKE j \in DOMAIN bound
<1>2. Good(j, widget[j], shared_cell, j \in stray, j \in stuck, j \in DueIn(calls_due, "display"),
           j \in DueIn(calls_due, "reset"))
  BY DEF WidgetInv, AllGood, Due
<1>3. (j \in DueIn(calls_due, "display")) = FALSE /\ (j \in DueIn(calls_due, "reset")) = FALSE
  OBVIOUS
<1>4. bound[j] \in {"reveal", "popup"} \/ widget[j].live = enabled
  BY DEF WidgetInv, AllLive, Due
<1>5. QED
  BY <1>2, <1>3, <1>4

\* The cell is displayed to every widget.
DisplayAll(new) == [j \in DOMAIN bound |-> W!Call("display", j, new)]

LEMMA AllDisplayed ==
    ASSUME WidgetTypes, NEW new \in W!Value
    PROVE  /\ DisplayAll(new) \in Seq(WidgetCall)
           /\ \A c \in ToSet(DisplayAll(new)) : c.op = "display" /\ c.v = new
           /\ DueIn(DisplayAll(new), "display") = DOMAIN bound
<1> DEFINE shows == DisplayAll(new)
<1>1. Len(bound) \in Nat /\ DOMAIN bound = 1..Len(bound)
  <2>1. bound \in Seq(W!Kind)
    BY WidgetConstants DEF WidgetTypes
  <2>2. QED
    BY <2>1
<1>2. \A j \in DOMAIN bound : /\ W!Call("display", j, new) \in WidgetCall
                              /\ W!Call("display", j, new).op = "display"
                              /\ W!Call("display", j, new).v = new
                              /\ W!Call("display", j, new).i = j
  BY DEF W!Call, WidgetCall, Harmless
<1>3. shows = [j \in 1..Len(bound) |-> W!Call("display", j, new)]
  BY <1>1 DEF DisplayAll
<1>4. shows \in Seq(WidgetCall)
  BY <1>1, <1>2, <1>3
<1>5. ToSet(shows) = {W!Call("display", j, new) : j \in DOMAIN bound}
  BY <1>1, <1>3 DEF ToSet
<1> HIDE DEF shows
<1>6. DueIn(shows, "display") = DOMAIN bound
  <2>1. ASSUME NEW k \in DueIn(shows, "display") PROVE k \in DOMAIN bound
    <3>1. PICK c \in ToSet(shows) : c.i = k
      BY DueWhich
    <3>2. QED
      BY <1>2, <1>5, <3>1
  <2>2. ASSUME NEW k \in DOMAIN bound PROVE k \in DueIn(shows, "display")
    <3>1. W!Call("display", k, new) \in ToSet(shows)
      BY <1>5
    <3>2. QED
      BY <1>2, <3>1, DueWhich
  <2>3. DueIn(shows, "display") \subseteq DOMAIN bound /\ DOMAIN bound \subseteq DueIn(shows, "display")
    BY <2>1, <2>2
  <2>4. QED
    BY <2>3
<1>7. QED
  BY <1>2, <1>4, <1>5, <1>6 DEF shows

LEMMA LayoutThen ==
    ASSUME NEW s \in Seq(WidgetCall), NEW t \in Seq(WidgetCall), LayoutLast(s),
           \A c \in ToSet(t) : c.op = "clear"
    PROVE  LayoutLast(s \o t)
<1>1. /\ s \o t \in Seq(WidgetCall) /\ Len(s \o t) = Len(s) + Len(t)
      /\ Len(s) \in Nat /\ Len(t) \in Nat
      /\ \A j \in 1..(Len(s) + Len(t)) : (s \o t)[j] = IF j <= Len(s) THEN s[j] ELSE t[j - Len(s)]
  BY ConcatProperties, LenProperties
<1> DEFINE u == s \o t
<1>2. /\ DOMAIN u = 1..(Len(s) + Len(t))
      /\ \A j \in 1..(Len(s) + Len(t)) : u[j] = IF j <= Len(s) THEN s[j] ELSE t[j - Len(s)]
  BY <1>1
<1> HIDE DEF u
<1>3. DOMAIN s = 1..Len(s) /\ DOMAIN t = 1..Len(t)
  OBVIOUS
<1>4. \A j \in 1..Len(t) : t[j].op = "clear"
  BY <1>3 DEF ToSet
<1>5. LayoutLast(u)
  <2>1. SUFFICES ASSUME NEW j \in DOMAIN u, NEW k \in DOMAIN u,
                        u[j].op = "layout" /\ j < k
                 PROVE  u[k].op = "clear"
    BY DEF LayoutLast
  <2>2. u[j].op = "layout" /\ j < k
    BY <2>1
  <2>3. CASE k <= Len(s)
    <3>1. j \in DOMAIN s /\ k \in DOMAIN s /\ u[j] = s[j] /\ u[k] = s[k]
      BY <1>1, <1>2, <1>3, <2>2, <2>3
    <3>2. QED
      BY <2>2, <3>1 DEF LayoutLast
  <2>4. CASE ~(k <= Len(s))
    <3>1. k - Len(s) \in 1..Len(t) /\ u[k] = t[k - Len(s)]
      BY <1>1, <1>2, <2>4
    <3>2. QED
      BY <1>4, <3>1
  <2>5. QED
    BY <2>3, <2>4
<1>6. QED
  BY <1>5 DEF u

\* The calls after the cell was set: displays or none, the layout, and flags to be cleared.
LEMMA SetCalls ==
    ASSUME NEW shows \in Seq(WidgetCall), NEW l \in WidgetCall, NEW rest \in Seq(WidgetCall),
           \A c \in ToSet(shows) : c.op = "display", l.op = "layout",
           \A c \in ToSet(rest) : c.op = "clear"
    PROVE  /\ (shows \o <<l>>) \o rest \in Seq(WidgetCall)
           /\ LayoutLast((shows \o <<l>>) \o rest)
           /\ ToSet((shows \o <<l>>) \o rest) = (ToSet(shows) \cup {l}) \cup ToSet(rest)
<1> DEFINE one == <<l>>
<1>1. one \in Seq(WidgetCall) /\ ToSet(one) = {l} /\ DOMAIN one = {1}
  BY OneCall
<1> HIDE DEF one
<1>2. shows \o one \in Seq(WidgetCall) /\ ToSet(shows \o one) = ToSet(shows) \cup {l}
  BY <1>1, ConcatToSet
<1>3. LayoutLast(one)
  <2>1. SUFFICES ASSUME NEW j \in DOMAIN one, NEW k \in DOMAIN one,
                        one[j].op = "layout" /\ j < k
                 PROVE  one[k].op = "clear"
    BY DEF LayoutLast
  <2>2. j = 1 /\ k = 1 /\ j < k
    BY <1>1, <2>1
  <2>3. QED
    BY <2>2
<1>4. LayoutLast(shows \o one)
  BY <1>1, <1>3, LayoutBehind
<1> DEFINE both == shows \o one
<1> HIDE DEF both
<1>5. both \in Seq(WidgetCall) /\ LayoutLast(both) /\ ToSet(both) = ToSet(shows) \cup {l}
  BY <1>2, <1>4 DEF both
<1>6. both \o rest \in Seq(WidgetCall) /\ ToSet(both \o rest) = ToSet(both) \cup ToSet(rest)
  BY <1>5, ConcatToSet
<1>7. LayoutLast(both \o rest)
  BY <1>5, LayoutThen
<1>8. QED
  BY <1>5, <1>6, <1>7 DEF both, one

\* The model sets the cell to what it is asked for, or to another value.
LEMMA SetStep ==
    ASSUME WidgetInv, W!touch_set_update
    PROVE  WidgetInv'
<1> DEFINE m == Head(calls_due).i
           v == Head(calls_due).v
           c == shared_cell
           rest == Tail(calls_due)
<1>1. PICK new \in W!CellValue :
          /\ calls_due # <<>> /\ Head(calls_due).op = "set"
          /\ shared_cell' = new
          /\ calls_due' = ((IF new = c THEN <<>> ELSE [j \in DOMAIN bound |-> W!Call("display", j, new)])
                              \o <<W!Call("layout", m, none)>>) \o rest
          /\ stray' = IF new = v THEN stray \ {m} ELSE stray
          /\ writes' = W!Min({writes + 1, 2})
          /\ UNCHANGED <<platform, bound, widget, enabled, items, stuck>>
  BY DEF W!touch_set_update, W!Next_call, W!AtRest
<1> DEFINE shows == IF new = c THEN <<>> ELSE DisplayAll(new)
           l == W!Call("layout", m, none)
<1>2. calls_due' = (shows \o <<l>>) \o rest
  BY <1>1 DEF DisplayAll
<1>3. /\ m \in DOMAIN bound /\ Head(calls_due) \in WidgetCall /\ rest \in Seq(WidgetCall)
      /\ ToSet(calls_due) = {Head(calls_due)} \cup ToSet(rest)
      /\ platform \in {"win", "mac"} /\ items \in W!Menus
  BY <1>1, HeadOf
<1>4. AskingModel
  BY <1>1, <1>3 DEF WidgetInv, Displaying, OnlyHarmless, Harmless, ToldByControl, ToldByUser, Throwing
<1>5. /\ \A d \in ToSet(rest) : d.op = "clear" /\ d.i = m
      /\ Asking(m, widget[m], c, v, m \in stray) /\ writes = 0
  BY <1>4 DEF AskingModel
<1>6. new \in W!Value /\ WidgetTypes
  BY CellValues DEF WidgetInv
<1>7. /\ shows \in Seq(WidgetCall) /\ \A d \in ToSet(shows) : d.op = "display" /\ d.v = new
      /\ \A j \in DOMAIN bound : j \in DueIn(shows, "display") <=> new # c
  <2>1. <<>> \in Seq(WidgetCall) /\ ToSet(<<>>) = {} /\ DueIn(<<>>, "display") = {}
    BY DueNone
  <2>2. CASE new = c
    BY <2>1, <2>2
  <2>3. CASE new # c
    BY <1>6, <2>3, AllDisplayed
  <2>4. QED
    BY <2>2, <2>3
<1>8. l \in WidgetCall /\ l.op = "layout"
  BY <1>3, WidgetConstants DEF W!Call, WidgetCall, Harmless
<1>9. \A op \in {"display", "reset", "enable"} : DueIn(calls_due, op) = {}
  <2>1. \A d \in ToSet(calls_due) : d.op \in {"set", "clear"}
    BY <1>1, <1>3, <1>5
  <2>2. QED
    BY <2>1 DEF DueIn
<1> DEFINE due == calls_due'
<1> HIDE DEF shows, l, rest, m, v, c
<1>10. /\ due \in Seq(WidgetCall) /\ LayoutLast(due)
       /\ ToSet(due) = (ToSet(shows) \cup {l}) \cup ToSet(rest)
  BY <1>2, <1>3, <1>5, <1>7, <1>8, SetCalls
<1> HIDE DEF due
<1>11. /\ \A j \in DOMAIN bound : j \in DueIn(due, "display") <=> new # c
       /\ DueIn(due, "reset") = {}
       /\ DueIn(due, "clear") = DueIn(calls_due, "clear")
  <2>1. ASSUME NEW j \in DOMAIN bound PROVE j \in DueIn(due, "display") <=> new # c
    <3>1. j \in DueIn(due, "display") <=> j \in DueIn(shows, "display")
      BY <1>5, <1>8, <1>10, DueWhich
    <3>2. QED
      BY <1>7, <3>1
  <2>2. \A j : j \notin DueIn(due, "reset")
    BY <1>5, <1>7, <1>8, <1>10, DueWhich
  <2>3. \A j : j \in DueIn(due, "clear") <=> j \in DueIn(calls_due, "clear")
    <3>1. \A j : j \in DueIn(due, "clear") <=> \E d \in ToSet(rest) : d.op = "clear" /\ d.i = j
      BY <1>7, <1>8, <1>10, DueWhich
    <3>2. \A j : j \in DueIn(calls_due, "clear") <=> \E d \in ToSet(rest) : d.op = "clear" /\ d.i = j
      BY <1>1, <1>3, DueWhich
    <3>3. QED
      BY <3>1, <3>2
  <2>4. DueIn(due, "clear") \subseteq DueIn(calls_due, "clear")
        /\ DueIn(calls_due, "clear") \subseteq DueIn(due, "clear")
    BY <2>3
  <2>5. QED
    BY <2>1, <2>2, <2>4
<1>12. \A j \in DOMAIN bound :
           /\ Good(j, widget[j], c, j \in stray, j \in stuck, FALSE, FALSE)
           /\ bound[j] \in {"reveal", "popup"} \/ widget[j].live = enabled
  BY <1>9, NothingDue DEF c
<1>13. \A j \in DOMAIN bound : bound[j] \in W!Kind
  <2>1. bound \in Seq(W!Kind)
    BY <1>6, WidgetConstants DEF WidgetTypes
  <2>2. QED
    BY <2>1
<1>14. \A j \in DOMAIN bound :
           bound[j] = "tab_group" /\ widget[j].flag => j \in stray \/ j \in stuck
  <2>1. TAKE j \in DOMAIN bound
  <2>2. bound[j] = "tab_group" /\ widget[j].flag => j \in stuck \/ j \in DueIn(calls_due, "clear")
    BY DEF WidgetInv, FlagsDue, Due
  <2>3. j \in DueIn(calls_due, "clear") => j = m
    <3>1. ASSUME j \in DueIn(calls_due, "clear") PROVE j = m
      <4>1. PICK d \in ToSet(calls_due) : d.op = "clear" /\ d.i = j
        BY <3>1, DueWhich
      <4>2. QED
        BY <1>1, <1>3, <1>5, <4>1
    <3>2. QED
      BY <3>1
  <2>4. bound[m] = "tab_group" => m \in stray
    BY <1>5 DEF Asking
  <2>5. QED
    BY <2>2, <2>3, <2>4
<1>15. AllGood'
  <2>1. ASSUME NEW j \in DOMAIN bound
        PROVE  Good(j, widget[j], new, j \in stray', j \in stuck, new # c, FALSE)
    <3> DEFINE odd == j \in stray
               dead == j \in stuck
               w == widget[j]
    <3>6. odd \in BOOLEAN /\ dead \in BOOLEAN
      OBVIOUS
    <3>7. Good(j, w, c, j \in stray, j \in stuck, FALSE, FALSE)
      BY <1>12
    <3>1. odd \in BOOLEAN /\ dead \in BOOLEAN /\ Good(j, w, c, odd, dead, FALSE, FALSE)
      BY <3>6, <3>7
    <3>2. bound[j] = "tab_group" /\ w.flag => odd \/ dead
      BY <1>14
    <3>3. CASE j = m /\ new = v
      <4>1. Asking(j, w, c, v, odd)
        BY <1>5, <3>3
      <4> HIDE DEF odd, dead, w
      <4>5. Asks(j, w, c, v, odd, dead)
        BY <1>3, <1>13, <3>1, <4>1 DEF Asks
      <4>2. Good(j, w, v, FALSE, dead, v # c, FALSE)
        BY <4>5, GoodGranted
      <4>3. (j \in stray') = FALSE
        BY <1>1, <3>3
      <4>4. QED
        BY <3>3, <4>2, <4>3 DEF dead, w
    <3>4. CASE ~(j = m /\ new = v)
      <4>1. (j \in stray') = odd
        BY <1>1, <3>4
      <4> HIDE DEF odd, dead, w
      <4>2. CASE new # c
        <5>1. Good(j, w, new, odd, dead, TRUE, FALSE)
          BY <3>1, <3>2, GoodUntold
        <5>2. (new # c) = TRUE
          BY <4>2
        <5>3. QED
          BY <4>1, <5>1, <5>2 DEF dead, w
      <4>3. CASE new = c
        <5>1. (new # c) = FALSE
          BY <4>3
        <5>2. QED
          BY <3>1, <4>1, <4>3, <5>1 DEF dead, w
      <4>4. QED
        BY <4>2, <4>3
    <3>5. QED
      BY <3>3, <3>4
  <2>2. \A j \in DOMAIN bound :
            Good(j, widget'[j], shared_cell', j \in stray', j \in stuck',
                 j \in DueIn(due, "display"), j \in DueIn(due, "reset"))
    <3>1. TAKE j \in DOMAIN bound
    <3>2. (j \in DueIn(due, "display")) = (new # c) /\ (j \in DueIn(due, "reset")) = FALSE
      BY <1>11
    <3>3. QED
      BY <1>1, <2>1, <3>2
  <2>3. QED
    BY <1>1, <2>2, GoodNext DEF due
<1>16. AllLive'
  <2>1. \A j \in DOMAIN bound : bound[j] \in {"reveal", "popup"} \/ widget[j].live = enabled
    BY <1>12
  <2>2. QED
    BY <1>1, <2>1 DEF AllLive
<1>17. FlagsDue'
  <2>1. \A j \in DOMAIN bound :
            bound[j] = "tab_group" /\ widget[j].flag => j \in stuck \/ j \in DueIn(due, "clear")
    BY <1>11 DEF WidgetInv, FlagsDue, Due
  <2>2. QED
    BY <1>1, <2>1 DEF FlagsDue, Due, DueIn, due
<1>18. CallsOnlyCell'
  <2>1. \A d \in ToSet(due) : (d.op = "display" => d.v = new) /\ d.op # "reset"
    BY <1>5, <1>7, <1>8, <1>10
  <2>2. QED
    BY <1>1, <2>1 DEF CallsOnlyCell, due
<1>19. Displaying'
  <2>1. writes' = 1
    <3>1. W!Min({0 + 1, 2}) = 1
      BY LeastOfTwo
    <3>2. QED
      BY <1>1, <1>5, <3>1
  <2>2. \A d \in ToSet(due) : d.op \in Harmless
    BY <1>5, <1>7, <1>8, <1>10 DEF Harmless
  <2>3. QED
    BY <2>1, <2>2 DEF Displaying, OnlyHarmless, Harmless, due
<1>20. WidgetTypes'
  <2>1. WidgetCall' = WidgetCall /\ W!CellValue' = W!CellValue
    BY <1>1, CellValues DEF WidgetCall
  <2>2. QED
    BY <1>1, <1>6, <1>10, <2>1 DEF WidgetTypes, due
<1>21. LayoutLast(calls_due)'
  BY <1>10 DEF LayoutLast, due
<1>22. QED
  BY <1>15, <1>16, <1>17, <1>18, <1>19, <1>20, <1>21 DEF WidgetInv

\* The widgets when no call is left.
LEMMA Rested ==
    ASSUME WidgetInv, calls_due = <<>>
    PROVE  \A j \in DOMAIN bound :
               /\ Good(j, widget[j], shared_cell, j \in stray, j \in stuck, FALSE, FALSE)
               /\ bound[j] \in {"reveal", "popup"} \/ widget[j].live = enabled
               /\ bound[j] = "tab_group" /\ widget[j].flag => j \in stuck
               /\ DOMAIN widget[j] = WidgetFields /\ bound[j] \in W!Kind
               /\ bound[j] = "popup" => widget[j].last \in W!Value
<1>1. \A op : DueIn(calls_due, op) = {}
  BY DueNone
<1>2. \A j \in DOMAIN bound :
          /\ Good(j, widget[j], shared_cell, j \in stray, j \in stuck, FALSE, FALSE)
          /\ bound[j] \in {"reveal", "popup"} \/ widget[j].live = enabled
  BY <1>1, NothingDue
<1>3. \A j \in DOMAIN bound : bound[j] = "tab_group" /\ widget[j].flag => j \in stuck
  BY <1>1 DEF WidgetInv, FlagsDue, Due
<1>4. \A j \in DOMAIN bound : bound[j] \in W!Kind
  <2>1. bound \in Seq(W!Kind)
    BY WidgetConstants DEF WidgetInv, WidgetTypes
  <2>2. QED
    BY <2>1
<1>5. \A j \in DOMAIN bound : DOMAIN widget[j] = WidgetFields
  BY DEF WidgetInv, WidgetTypes
<1>6. \A j \in DOMAIN bound : bound[j] = "popup" => widget[j].last \in W!Value
  BY DEF WidgetInv, WidgetTypes
<1>7. QED
  BY <1>2, <1>3, <1>4, <1>5, <1>6

\* The user makes widget i another, and a call is made or none.
UserTurns(i, u, made) ==
    /\ i \in DOMAIN bound /\ calls_due = <<>> /\ DOMAIN u = WidgetFields
    /\ u.live = widget[i].live /\ u.flag = widget[i].flag
    /\ bound[i] = "popup" => u.last \in W!Value
    /\ made \in Seq(WidgetCall) /\ \A c \in ToSet(made) : c.op \in {"changed", "set"}
    /\ widget' = [widget EXCEPT ![i] = u] /\ calls_due' = made /\ writes' = 0
    /\ UNCHANGED <<platform, bound, shared_cell, enabled, items, stuck>>
    /\ \A j \in DOMAIN bound \ {i} : j \in stray' <=> j \in stray
    /\ Good(i, u, shared_cell, i \in stray', i \in stuck, FALSE, FALSE)

LEMMA UserActs ==
    ASSUME WidgetInv, NEW i, NEW u, NEW made, UserTurns(i, u, made)
    PROVE  /\ WidgetTypes' /\ LayoutLast(calls_due)' /\ CallsOnlyCell' /\ FlagsDue'
           /\ AllLive' /\ AllGood'
           /\ widget'[i] = u
<1> USE DEF UserTurns
<1> DEFINE due == calls_due'
<1>1. /\ due \in Seq(WidgetCall) /\ \A c \in ToSet(due) : c.op \in {"changed", "set"}
  OBVIOUS
<1>2. /\ widget'[i] = u /\ DOMAIN widget' = DOMAIN bound
      /\ \A j \in DOMAIN bound \ {i} : widget'[j] = widget[j]
  BY DEF WidgetInv, WidgetTypes
<1>3. \A j \in DOMAIN bound :
          /\ Good(j, widget[j], shared_cell, j \in stray, j \in stuck, FALSE, FALSE)
          /\ bound[j] \in {"reveal", "popup"} \/ widget[j].live = enabled
          /\ bound[j] = "tab_group" /\ widget[j].flag => j \in stuck
          /\ DOMAIN widget[j] = WidgetFields /\ bound[j] \in W!Kind
          /\ bound[j] = "popup" => widget[j].last \in W!Value
  BY Rested
<1> HIDE DEF due
<1>4. DueIn(due, "display") = {} /\ DueIn(due, "reset") = {}
  BY <1>1 DEF DueIn
<1>5. WidgetTypes'
  <2>1. WidgetCall' = WidgetCall /\ W!CellValue' = W!CellValue
    BY CellValues DEF WidgetCall
  <2>2. \A j \in DOMAIN bound : DOMAIN widget'[j] = WidgetFields
    BY <1>2, <1>3
  <2>3. \A j \in DOMAIN bound : bound[j] = "popup" => widget'[j].last \in W!Value
    BY <1>2, <1>3
  <2>4. QED
    BY <1>1, <1>2, <2>1, <2>2, <2>3 DEF WidgetInv, WidgetTypes, due
<1>6. LayoutLast(calls_due)'
  <2>1. LayoutLast(due)
    BY <1>1, LayoutBefore
  <2>2. QED
    BY <2>1 DEF LayoutLast, due
<1>7. CallsOnlyCell'
  BY <1>1 DEF CallsOnlyCell, due
<1>8. FlagsDue'
  <2>1. \A j \in DOMAIN bound : bound[j] = "tab_group" /\ widget'[j].flag => j \in stuck
    BY <1>2, <1>3
  <2>2. QED
    BY <2>1 DEF FlagsDue
<1>9. AllLive'
  <2>1. \A j \in DOMAIN bound : bound[j] \in {"reveal", "popup"} \/ widget'[j].live = enabled
    BY <1>2, <1>3
  <2>2. QED
    BY <2>1 DEF AllLive
<1>10. AllGood'
  <2>1. \A j \in DOMAIN bound :
            Good(j, widget'[j], shared_cell', j \in stray', j \in stuck',
                 j \in DueIn(due, "display"), j \in DueIn(due, "reset"))
    <3>1. TAKE j \in DOMAIN bound
    <3>2. (j \in DueIn(due, "display")) = FALSE /\ (j \in DueIn(due, "reset")) = FALSE
      BY <1>4
    <3>3. CASE j = i
      BY <1>2, <3>2, <3>3
    <3>4. CASE j # i
      <4>1. Good(j, widget[j], shared_cell, j \in stray, j \in stuck, FALSE, FALSE)
        BY <1>3
      <4>2. (j \in stray') = (j \in stray) /\ widget'[j] = widget[j]
        BY <1>2, <3>4
      <4>3. QED
        BY <3>2, <4>1, <4>2
    <3>5. QED
      BY <3>3, <3>4
  <2>2. QED
    BY <2>1, GoodNext DEF due
<1>11. QED
  BY <1>2, <1>5, <1>6, <1>7, <1>8, <1>9, <1>10

LEMMA GestureStep ==
    ASSUME WidgetInv, NEW i \in DOMAIN bound, W!gesture(i)
    PROVE  WidgetInv'
<1> DEFINE w == widget[i]
           a == W!Call("changed", i, none)
<1>1. PICK u \in W!Moved(i, w) : W!Acts(i, u, <<a>>)
  BY DEF W!gesture
<1> DEFINE made == <<a>>
<1>2. /\ calls_due = <<>> /\ widget' = [widget EXCEPT ![i] = u] /\ calls_due' = made /\ writes' = 0
      /\ UNCHANGED <<platform, bound, shared_cell, enabled, items, stuck>>
      /\ stray' = IF u = w THEN stray ELSE stray \cup {i}
  BY <1>1 DEF W!Acts, W!AtRest
<1>3. a \in WidgetCall /\ a.op = "changed" /\ a.i = i
  BY WidgetConstants DEF W!Call, WidgetCall, Harmless
<1> HIDE DEF a
<1>4. made \in Seq(WidgetCall) /\ made # <<>> /\ ToSet(made) = {a} /\ Head(made) = a /\ Tail(made) = <<>>
  BY <1>3, OneCall
<1> HIDE DEF made
<1>5. /\ platform \in {"win", "mac"} /\ bound[i] \in W!Kind /\ items \in W!Menus
      /\ DOMAIN w = WidgetFields /\ (bound[i] = "popup" => w.last \in W!Value)
      /\ Good(i, w, shared_cell, i \in stray, i \in stuck, FALSE, FALSE)
  BY <1>2, Rested DEF WidgetInv, WidgetTypes
<1>6. (i \in stray') = (i \in stray \/ u # w) /\ \A j \in DOMAIN bound \ {i} : j \in stray' <=> j \in stray
  BY <1>2
<1> DEFINE odd == i \in stray
           dead == i \in stuck
           odd_now == odd \/ u # w
<1>7. odd \in BOOLEAN /\ dead \in BOOLEAN
  OBVIOUS
<1>15. AtHand(i, w, shared_cell, odd, dead)
  <2>1. Good(i, w, shared_cell, odd, dead, FALSE, FALSE)
    BY <1>5
  <2> HIDE DEF odd, dead, w
  <2>2. QED
    BY <1>5, <1>7, <2>1 DEF AtHand
<1> HIDE DEF odd, dead, w
<1>8. Good(i, u, shared_cell, odd_now, dead, FALSE, FALSE) /\ Acted(i, u, odd_now)
  <2>1. MovedTo(i, w, u, shared_cell, odd, dead)
    BY <1>1, <1>15, GoodMoved
  <2>2. QED
    BY <2>1 DEF MovedTo
<1>9. DOMAIN u = WidgetFields /\ u.live = w.live /\ u.flag = w.flag /\ u.last = w.last
  BY <1>1, <1>5, MovedFields
<1>10. Good(i, u, shared_cell, i \in stray', i \in stuck, FALSE, FALSE) /\ Acted(i, u, i \in stray')
  BY <1>6, <1>8 DEF odd, dead
<1>11. UserTurns(i, u, made)
  BY <1>2, <1>3, <1>4, <1>5, <1>6, <1>9, <1>10 DEF UserTurns, w
<1>12. /\ WidgetTypes' /\ LayoutLast(calls_due)' /\ CallsOnlyCell' /\ FlagsDue'
       /\ AllLive' /\ AllGood' /\ widget'[i] = u
  BY <1>11, UserActs
<1>13. ToldByUser'
  <2>1. /\ calls_due' # <<>> /\ Head(calls_due').op = "changed" /\ Tail(calls_due') = <<>>
        /\ Head(calls_due').i = i /\ writes' = 0
    BY <1>2, <1>3, <1>4
  <2>2. Acted(Head(calls_due').i, widget'[Head(calls_due').i], Head(calls_due').i \in stray')
    BY <1>10, <1>12, <2>1
  <2>3. QED
    BY <1>2, <2>1, <2>2, ActedKept DEF ToldByUser
<1>14. QED
  BY <1>12, <1>13 DEF WidgetInv

\* A text becomes another, or stays, and a call is made or none.
LEMMA TextTurns ==
    ASSUME WidgetInv, NEW i \in DOMAIN bound, bound[i] = "edit_text", NEW u, NEW made,
           W!Acts(i, u, made), DOMAIN u = WidgetFields, u.live = widget[i].live,
           u.flag = widget[i].flag, u = widget[i] \/ i \in stray',
           made \in Seq(WidgetCall), \A c \in ToSet(made) : c.op \in {"changed", "set"}
    PROVE  UserTurns(i, u, made)
<1>1. /\ calls_due = <<>> /\ widget' = [widget EXCEPT ![i] = u] /\ calls_due' = made /\ writes' = 0
      /\ UNCHANGED <<platform, bound, shared_cell, enabled, items, stuck>>
      /\ stray' = IF u = widget[i] THEN stray ELSE stray \cup {i}
  BY DEF W!Acts, W!AtRest
<1>2. \A j \in DOMAIN bound \ {i} : j \in stray' <=> j \in stray
  BY <1>1
<1>3. Good(i, u, shared_cell, i \in stray', i \in stuck, FALSE, FALSE)
  <2>1. CASE i \in stray'
    <3>1. Good(i, u, shared_cell, TRUE, i \in stuck, FALSE, FALSE)
      BY GoodText
    <3>2. (i \in stray') = TRUE
      BY <2>1
    <3>3. QED
      BY <3>1, <3>2
  <2>2. CASE i \notin stray'
    <3>1. u = widget[i] /\ (i \in stray') = (i \in stray)
      BY <1>1, <2>2
    <3>2. Good(i, widget[i], shared_cell, i \in stray, i \in stuck, FALSE, FALSE)
      BY <1>1, Rested
    <3>3. QED
      BY <3>1, <3>2
  <2>3. QED
    BY <2>1, <2>2
<1>4. QED
  BY <1>1, <1>2, <1>3 DEF UserTurns

LEMMA QuietTextStep ==
    ASSUME WidgetInv, NEW i \in DOMAIN bound, bound[i] = "edit_text", NEW u,
           W!Acts(i, u, <<>>), DOMAIN u = WidgetFields, u.live = widget[i].live,
           u.flag = widget[i].flag
    PROVE  WidgetInv'
<1>1. <<>> \in Seq(WidgetCall) /\ ToSet(<<>>) = {}
  BY DueNone
<1>2. u = widget[i] \/ i \in stray'
  BY DEF W!Acts
<1>3. UserTurns(i, u, <<>>)
  BY <1>1, <1>2, TextTurns
<1>4. /\ WidgetTypes' /\ LayoutLast(calls_due)' /\ CallsOnlyCell' /\ FlagsDue'
      /\ AllLive' /\ AllGood'
  BY <1>3, UserActs
<1>5. Displaying'
  BY <1>1, <1>3 DEF UserTurns, Displaying, OnlyHarmless
<1>6. QED
  BY <1>4, <1>5 DEF WidgetInv

LEMMA TypeStep ==
    ASSUME WidgetInv, NEW i \in DOMAIN bound, W!type_text(i)
    PROVE  WidgetInv'
<1> DEFINE w == widget[i]
<1>1. bound[i] = "edit_text" /\ calls_due = <<>>
  BY DEF W!type_text, W!Acts, W!AtRest
<1>2. PICK text \in W!CellValue \ {w.shown}, squelch \in BOOLEAN :
          IF squelch THEN W!Acts(i, w, <<>>)
          ELSE W!Acts(i, [w EXCEPT !.last = text, !.shown = text], <<W!Call("set", i, text)>>)
  BY DEF W!type_text
<1>3. DOMAIN w = WidgetFields
  BY DEF WidgetInv, WidgetTypes
<1>4. CASE squelch
  BY <1>1, <1>2, <1>3, <1>4, QuietTextStep
<1>5. CASE ~squelch
  <2> DEFINE u == [w EXCEPT !.last = text, !.shown = text]
             a == W!Call("set", i, text)
             made == <<a>>
  <2>1. W!Acts(i, u, made)
    BY <1>2, <1>5
  <2>2. a \in WidgetCall /\ a.op = "set" /\ a.i = i /\ a.v = text
    BY CellValues DEF W!Call, WidgetCall, Harmless
  <2> HIDE DEF a
  <2>3. made \in Seq(WidgetCall) /\ made # <<>> /\ ToSet(made) = {a} /\ Head(made) = a
        /\ Tail(made) = <<>>
    BY <2>2, OneCall
  <2> HIDE DEF made
  <2>4. /\ DOMAIN u = WidgetFields /\ u.live = w.live /\ u.flag = w.flag /\ u # w
        /\ \A odd : Asking(i, u, shared_cell, text, odd)
    <3>1. text # w.shown
      OBVIOUS
    <3> HIDE DEF w
    <3>2. /\ DOMAIN u = WidgetFields /\ u.live = w.live /\ u.flag = w.flag /\ u.shown = text
      BY <1>1, <1>3, TypedFields
    <3>3. \A odd : Asking(i, u, shared_cell, text, odd)
      BY <1>1, <1>3, TypedFields
    <3> HIDE DEF u
    <3>4. QED
      BY <3>1, <3>2, <3>3
  <2> HIDE DEF u
  <2>5. i \in stray'
    BY <2>1, <2>4 DEF W!Acts
  <2>6. UserTurns(i, u, made)
    BY <1>1, <2>1, <2>2, <2>3, <2>4, <2>5, TextTurns
  <2>7. /\ WidgetTypes' /\ LayoutLast(calls_due)' /\ CallsOnlyCell' /\ FlagsDue'
        /\ AllLive' /\ AllGood' /\ widget'[i] = u
    BY <2>6, UserActs
  <2>8. AskingModel'
    <3>1. /\ calls_due' # <<>> /\ Head(calls_due').op = "set" /\ Head(calls_due').i = i
          /\ Head(calls_due').v = text /\ writes' = 0 /\ shared_cell' = shared_cell
          /\ platform' = platform /\ bound' = bound /\ items' = items
      BY <2>2, <2>3, <2>6 DEF UserTurns
    <3>2. \A c \in ToSet(Tail(calls_due')) : c.op = "clear" /\ c.i = Head(calls_due').i
      BY <2>3, <2>6, DueNone DEF UserTurns
    <3>3. Asking(Head(calls_due').i, widget'[Head(calls_due').i], shared_cell',
                 Head(calls_due').v, Head(calls_due').i \in stray')
      BY <2>4, <2>7, <3>1
    <3>4. QED
      BY <3>1, <3>2, <3>3, AskingNext
  <2>9. QED
    BY <2>7, <2>8 DEF WidgetInv
<1>6. QED
  BY <1>4, <1>5

LEMMA UntoldStep ==
    ASSUME WidgetInv, NEW i \in DOMAIN bound, W!edit_untold(i)
    PROVE  WidgetInv'
<1> DEFINE w == widget[i]
<1>1. bound[i] = "edit_text"
  BY DEF W!edit_untold
<1>2. PICK text \in W!CellValue : W!Acts(i, [w EXCEPT !.shown = text], <<>>)
  BY DEF W!edit_untold
<1>3. DOMAIN w = WidgetFields
  BY DEF WidgetInv, WidgetTypes
<1> DEFINE u == [w EXCEPT !.shown = text]
<1>4. DOMAIN u = WidgetFields /\ u.live = w.live /\ u.flag = w.flag
  BY <1>3 DEF WidgetFields
<1>5. W!Acts(i, u, <<>>)
  BY <1>2
<1> HIDE DEF u
<1>6. QED
  BY <1>1, <1>4, <1>5, QuietTextStep

\* The calls made for the widgets one after the other.
LEMMA CallLists ==
    ASSUME bound \in Bindings, NEW lists, DOMAIN lists = DOMAIN bound,
           lists = [j \in DOMAIN bound |-> lists[j]],
           \A j \in DOMAIN bound : lists[j] \in Seq(WidgetCall)
    PROVE  /\ W!FlattenSeq(lists) \in Seq(WidgetCall)
           /\ \A x : x \in ToSet(W!FlattenSeq(lists)) <=>
                         \E j \in DOMAIN bound : x \in ToSet(lists[j])
<1>1. Len(bound) \in Nat /\ DOMAIN bound = 1..Len(bound)
  <2>1. bound \in Seq(W!Kind)
    BY WidgetConstants
  <2>2. QED
    BY <2>1
<1>2. lists \in Seq(Seq(WidgetCall))
  BY <1>1
<1>3. Len(lists) = Len(bound)
  BY <1>1, <1>2
<1>4. QED
  BY <1>1, <1>2, <1>3, Flattened

\* Of the calls at a list's places.
LEMMA CallsAt ==
    ASSUME NEW i \in DOMAIN bound, NEW op \in {"enable", "reset", "display"}, NEW v \in W!Value
    PROVE  /\ W!Call(op, i, v) \in WidgetCall /\ W!Call(op, i, v).op = op
           /\ W!Call(op, i, v).i = i /\ W!Call(op, i, v).v = v
           /\ <<W!Call(op, i, v)>> \in Seq(WidgetCall)
           /\ ToSet(<<W!Call(op, i, v)>>) = {W!Call(op, i, v)}
<1> DEFINE a == W!Call(op, i, v)
<1>1. a \in WidgetCall /\ a.op = op /\ a.i = i /\ a.v = v
  BY DEF W!Call, WidgetCall, Harmless
<1> HIDE DEF a
<1>2. <<a>> \in Seq(WidgetCall) /\ ToSet(<<a>>) = {a}
  BY <1>1, OneCall
<1>3. QED
  BY <1>1, <1>2 DEF a

\* The sheet makes calls that lay nothing out.
LEMMA SheetCalls ==
    ASSUME NEW s \in Seq(WidgetCall), calls_due' = s, bound' = bound,
           \A c \in ToSet(s) : /\ c.op \in {"enable", "display", "reset"}
                               /\ c.op = "display" => c.v = shared_cell'
                               /\ c.op = "reset" => bound[c.i] = "popup",
           writes' \in {0, 1}
    PROVE  calls_due' \in Seq(WidgetCall)' /\ LayoutLast(calls_due)' /\ CallsOnlyCell' /\ Displaying'
<1> DEFINE due == calls_due'
<1>1. due = s
  OBVIOUS
<1> HIDE DEF due
<1>2. LayoutLast(due)
  BY <1>1, LayoutBefore
<1>3. WidgetCall' = WidgetCall
  BY DEF WidgetCall
<1>4. QED
  BY <1>1, <1>2, <1>3 DEF LayoutLast, CallsOnlyCell, Displaying, OnlyHarmless, Harmless, due

LEMMA CellSetStep ==
    ASSUME WidgetInv, W!cell_set
    PROVE  WidgetInv'
<1>1. PICK new \in W!CellValue :
          /\ calls_due = <<>> /\ shared_cell' = new /\ calls_due' = DisplayAll(new) /\ writes' = 1
          /\ UNCHANGED <<platform, bound, widget, enabled, items, stray, stuck>>
  BY DEF W!cell_set, W!AtRest, DisplayAll
<1>2. new \in W!Value /\ WidgetTypes
  BY CellValues DEF WidgetInv
<1> DEFINE due == DisplayAll(new)
<1> HIDE DEF due
<1>3. /\ due \in Seq(WidgetCall) /\ \A c \in ToSet(due) : c.op = "display" /\ c.v = new
      /\ DueIn(due, "display") = DOMAIN bound
  BY <1>2, AllDisplayed DEF due
<1>4. calls_due' = due
  BY <1>1 DEF due
<1>5. calls_due' \in Seq(WidgetCall)' /\ LayoutLast(calls_due)' /\ CallsOnlyCell' /\ Displaying'
  BY <1>1, <1>3, <1>4, SheetCalls
<1>6. DueIn(due, "reset") = {}
  BY <1>3 DEF DueIn
<1>7. \A j \in DOMAIN bound :
          /\ Good(j, widget[j], shared_cell, j \in stray, j \in stuck, FALSE, FALSE)
          /\ bound[j] \in {"reveal", "popup"} \/ widget[j].live = enabled
          /\ bound[j] = "tab_group" /\ widget[j].flag => j \in stuck
  BY <1>1, Rested
<1>8. AllGood'
  <2>1. ASSUME NEW j \in DOMAIN bound
        PROVE  Good(j, widget[j], new, j \in stray, j \in stuck, TRUE, FALSE)
    <3> DEFINE odd == j \in stray
               dead == j \in stuck
               w == widget[j]
    <3>1. odd \in BOOLEAN /\ dead \in BOOLEAN
      OBVIOUS
    <3>2. Good(j, w, shared_cell, odd, dead, FALSE, FALSE)
      BY <1>7
    <3>3. bound[j] = "tab_group" /\ w.flag => odd \/ dead
      BY <1>7
    <3> HIDE DEF odd, dead, w
    <3>4. Good(j, w, new, odd, dead, TRUE, FALSE)
      BY <3>1, <3>2, <3>3, GoodUntold
    <3>5. QED
      BY <3>4 DEF odd, dead, w
  <2>2. \A j \in DOMAIN bound :
            Good(j, widget'[j], shared_cell', j \in stray', j \in stuck',
                 j \in DueIn(due, "display"), j \in DueIn(due, "reset"))
    <3>1. TAKE j \in DOMAIN bound
    <3>2. (j \in DueIn(due, "display")) = TRUE /\ (j \in DueIn(due, "reset")) = FALSE
      BY <1>3, <1>6
    <3>3. QED
      BY <1>1, <2>1, <3>2
  <2>3. QED
    BY <1>1, <1>4, <2>2, GoodNext
<1>9. AllLive'
  BY <1>1, <1>7 DEF AllLive
<1>10. FlagsDue'
  BY <1>1, <1>7 DEF FlagsDue
<1>11. WidgetTypes'
  <2>1. W!CellValue' = W!CellValue
    BY <1>1, CellValues
  <2>2. QED
    BY <1>1, <1>2, <1>5, <2>1 DEF WidgetTypes
<1>12. QED
  BY <1>5, <1>8, <1>9, <1>10, <1>11 DEF WidgetInv

LEMMA CellEnabledStep ==
    ASSUME WidgetInv, W!cell_enabled
    PROVE  WidgetInv'
<1> DEFINE lists == [j \in DOMAIN bound |->
                         IF bound[j] = "reveal" THEN <<>> ELSE <<W!Call("enable", j, none)>>]
           due == W!FlattenSeq(lists)
<1>1. /\ calls_due = <<>> /\ calls_due' = due
      /\ UNCHANGED <<platform, bound, widget, shared_cell, items, writes, stray, stuck>>
  BY DEF W!cell_enabled, W!AtRest
<1>2. WidgetTypes /\ bound \in Bindings /\ none \in W!Value
  BY WidgetConstants DEF WidgetInv, WidgetTypes
<1>3. \A j \in DOMAIN bound :
          /\ bound[j] = "reveal" => lists[j] = <<>>
          /\ bound[j] # "reveal" => lists[j] = <<W!Call("enable", j, none)>>
  OBVIOUS
<1>4. DOMAIN lists = DOMAIN bound /\ lists = [j \in DOMAIN bound |-> lists[j]]
  OBVIOUS
<1> HIDE DEF lists
<1>5. \A j \in DOMAIN bound :
          /\ lists[j] \in Seq(WidgetCall)
          /\ \A c \in ToSet(lists[j]) : c.op = "enable"
          /\ bound[j] # "reveal" => \E c \in ToSet(lists[j]) : c.op = "enable" /\ c.i = j
  <2>1. <<>> \in Seq(WidgetCall) /\ ToSet(<<>>) = {}
    BY DueNone
  <2>2. TAKE j \in DOMAIN bound
  <2>3. CASE bound[j] = "reveal"
    BY <1>3, <2>1, <2>3
  <2>4. CASE bound[j] # "reveal"
    <3> DEFINE a == W!Call("enable", j, none)
               one == <<a>>
    <3>1. a.op = "enable" /\ a.i = j /\ one \in Seq(WidgetCall) /\ ToSet(one) = {a}
      BY <1>2, CallsAt
    <3>2. lists[j] = one
      BY <1>3, <2>4
    <3> HIDE DEF a, one
    <3>3. QED
      BY <3>1, <3>2
  <2>5. QED
    BY <2>3, <2>4
<1>6. /\ due \in Seq(WidgetCall)
      /\ \A x : x \in ToSet(due) <=> \E j \in DOMAIN bound : x \in ToSet(lists[j])
  BY <1>2, <1>4, <1>5, CallLists
<1> HIDE DEF due
<1>7. (\A c \in ToSet(due) : c.op = "enable")
      /\ \A j \in DOMAIN bound : bound[j] # "reveal" => j \in DueIn(due, "enable")
  BY <1>5, <1>6, DueWhich
<1>8. writes \in {0, 1}
  BY <1>1 DEF WidgetInv, Displaying, ToldByControl, ToldByUser, AskingModel, Throwing
<1>9. calls_due' \in Seq(WidgetCall)' /\ LayoutLast(calls_due)' /\ CallsOnlyCell' /\ Displaying'
  BY <1>1, <1>6, <1>7, <1>8, SheetCalls
<1>10. \A j \in DOMAIN bound :
           /\ Good(j, widget[j], shared_cell, j \in stray, j \in stuck, FALSE, FALSE)
           /\ bound[j] = "tab_group" /\ widget[j].flag => j \in stuck
  BY <1>1, Rested
<1>11. DueIn(due, "display") = {} /\ DueIn(due, "reset") = {}
  BY <1>7 DEF DueIn
<1>12. AllGood'
  <2>1. \A j \in DOMAIN bound :
            Good(j, widget'[j], shared_cell', j \in stray', j \in stuck',
                 j \in DueIn(due, "display"), j \in DueIn(due, "reset"))
    <3>1. TAKE j \in DOMAIN bound
    <3>2. (j \in DueIn(due, "display")) = FALSE /\ (j \in DueIn(due, "reset")) = FALSE
      BY <1>11
    <3>3. QED
      BY <1>1, <1>10, <3>2
  <2>2. QED
    BY <1>1, <2>1, GoodNext
<1>13. AllLive'
  <2>1. \A j \in DOMAIN bound : bound[j] = "reveal" \/ j \in DueIn(calls_due', "enable")
    BY <1>1, <1>7
  <2>2. QED
    BY <1>1, <2>1 DEF AllLive, Due, DueIn
<1>14. FlagsDue'
  BY <1>1, <1>10 DEF FlagsDue
<1>15. WidgetTypes'
  <2>1. W!CellValue' = W!CellValue
    BY <1>1, CellValues
  <2>2. QED
    BY <1>1, <1>2, <1>9, <2>1 DEF WidgetTypes
<1>16. QED
  BY <1>9, <1>12, <1>13, <1>14, <1>15 DEF WidgetInv

\* Only a popup depends on the menu.
LEMMA GoodOtherMenu ==
    ASSUME platform' = platform, bound' = bound, NEW i, bound[i] # "popup",
           NEW w, NEW c, NEW odd, NEW dead, NEW a, NEW b
    PROVE  Good(i, w, c, odd, dead, a, b)' <=> Good(i, w, c, odd, dead, a, b)
BY DEF Good, AgreesLater, RemembersCell, ShowsRemembered, SliderPlaced, CustomChosen, TabUnheard,
   Remembers, Skips, Consistent, W!Agrees, W!Shows, W!find, W!Index, W!Min, W!SelectInSeq

LEMMA GoodMenu ==
    ASSUME platform' = platform, bound' = bound, NEW i, bound[i] = "popup",
           NEW w, NEW c, NEW odd, NEW dead, Good(i, w, c, odd, dead, FALSE, FALSE)
    PROVE  Good(i, w, c, odd, dead, FALSE, TRUE)'
BY DEF Good, AgreesLater, RemembersCell, ShowsRemembered, SliderPlaced, CustomChosen, TabUnheard,
   Remembers, Skips, Consistent

LEMMA ItemsSetStep ==
    ASSUME WidgetInv, W!items_set
    PROVE  WidgetInv'
<1> DEFINE lists == [j \in DOMAIN bound |->
                         IF bound[j] = "popup" THEN <<W!Call("reset", j, none)>> ELSE <<>>]
           due == W!FlattenSeq(lists)
<1>1. /\ calls_due = <<>> /\ calls_due' = due /\ items' \in W!Menus
      /\ UNCHANGED <<platform, bound, widget, shared_cell, enabled, writes, stray, stuck>>
  BY DEF W!items_set, W!AtRest
<1>2. WidgetTypes /\ bound \in Bindings /\ none \in W!Value
  BY WidgetConstants DEF WidgetInv, WidgetTypes
<1>3. \A j \in DOMAIN bound :
          /\ bound[j] # "popup" => lists[j] = <<>>
          /\ bound[j] = "popup" => lists[j] = <<W!Call("reset", j, none)>>
  OBVIOUS
<1>4. DOMAIN lists = DOMAIN bound /\ lists = [j \in DOMAIN bound |-> lists[j]]
  OBVIOUS
<1> HIDE DEF lists
<1>5. \A j \in DOMAIN bound :
          /\ lists[j] \in Seq(WidgetCall)
          /\ \A c \in ToSet(lists[j]) : c.op = "reset" /\ c.i = j /\ bound[j] = "popup"
          /\ bound[j] = "popup" => \E c \in ToSet(lists[j]) : c.op = "reset" /\ c.i = j
  <2>1. <<>> \in Seq(WidgetCall) /\ ToSet(<<>>) = {}
    BY DueNone
  <2>2. TAKE j \in DOMAIN bound
  <2>3. CASE bound[j] # "popup"
    BY <1>3, <2>1, <2>3
  <2>4. CASE bound[j] = "popup"
    <3> DEFINE a == W!Call("reset", j, none)
               one == <<a>>
    <3>1. a.op = "reset" /\ a.i = j /\ one \in Seq(WidgetCall) /\ ToSet(one) = {a}
      BY <1>2, CallsAt
    <3>2. lists[j] = one
      BY <1>3, <2>4
    <3> HIDE DEF a, one
    <3>3. QED
      BY <2>4, <3>1, <3>2
  <2>5. QED
    BY <2>3, <2>4
<1>6. /\ due \in Seq(WidgetCall)
      /\ \A x : x \in ToSet(due) <=> \E j \in DOMAIN bound : x \in ToSet(lists[j])
  BY <1>2, <1>4, <1>5, CallLists
<1> HIDE DEF due
<1>7. (\A c \in ToSet(due) : c.op = "reset" /\ bound[c.i] = "popup")
      /\ \A j \in DOMAIN bound : j \in DueIn(due, "reset") <=> bound[j] = "popup"
  <2>1. \A c \in ToSet(due) : c.op = "reset" /\ bound[c.i] = "popup"
    BY <1>5, <1>6
  <2>2. ASSUME NEW j \in DOMAIN bound PROVE j \in DueIn(due, "reset") <=> bound[j] = "popup"
    <3>1. j \in DueIn(due, "reset") => bound[j] = "popup"
      BY <2>1, DueWhich
    <3>2. bound[j] = "popup" => j \in DueIn(due, "reset")
      BY <1>5, <1>6, DueWhich
    <3>3. QED
      BY <3>1, <3>2
  <2>3. QED
    BY <2>1, <2>2
<1>8. writes \in {0, 1}
  BY <1>1 DEF WidgetInv, Displaying, ToldByControl, ToldByUser, AskingModel, Throwing
<1>9. calls_due' \in Seq(WidgetCall)' /\ LayoutLast(calls_due)' /\ CallsOnlyCell' /\ Displaying'
  BY <1>1, <1>6, <1>7, <1>8, SheetCalls
<1>10. \A j \in DOMAIN bound :
           /\ Good(j, widget[j], shared_cell, j \in stray, j \in stuck, FALSE, FALSE)
           /\ bound[j] \in {"reveal", "popup"} \/ widget[j].live = enabled
           /\ bound[j] = "tab_group" /\ widget[j].flag => j \in stuck
  BY <1>1, Rested
<1>11. DueIn(due, "display") = {}
  BY <1>7 DEF DueIn
<1>12. AllGood'
  <2>1. ASSUME NEW j \in DOMAIN bound
        PROVE  Good(j, widget[j], shared_cell, j \in stray, j \in stuck, j \in Due("display"),
                    j \in Due("reset"))'
    <3>1. (j \in Due("display"))' = FALSE /\ (j \in Due("reset"))' = (bound[j] = "popup")
      BY <1>1, <1>7, <1>11 DEF Due, DueIn
    <3> DEFINE odd == j \in stray
               dead == j \in stuck
               w == widget[j]
               c == shared_cell
    <3>2. Good(j, w, c, odd, dead, FALSE, FALSE)
      BY <1>10
    <3>3. platform' = platform /\ bound' = bound
      BY <1>1
    <3>4. widget'[j] = w /\ shared_cell' = c /\ (j \in stray') = odd /\ (j \in stuck') = dead
      BY <1>1
    <3> HIDE DEF odd, dead, w, c
    <3>5. CASE bound[j] = "popup"
      BY <3>1, <3>2, <3>3, <3>4, <3>5, GoodMenu
    <3>6. CASE bound[j] # "popup"
      BY <3>1, <3>2, <3>3, <3>4, <3>6, GoodOtherMenu
    <3>7. QED
      BY <3>5, <3>6
  <2>2. QED
    BY <1>1, <2>1 DEF AllGood
<1>13. AllLive'
  BY <1>1, <1>10 DEF AllLive
<1>14. FlagsDue'
  BY <1>1, <1>10 DEF FlagsDue
<1>15. WidgetTypes'
  <2>1. W!CellValue' = W!CellValue
    BY <1>1, CellValues
  <2>2. W!Menus' = W!Menus
    BY DEF W!Menus
  <2>3. QED
    BY <1>1, <1>2, <1>9, <2>1, <2>2 DEF WidgetTypes
<1>16. QED
  BY <1>9, <1>12, <1>13, <1>14, <1>15 DEF WidgetInv

------------------------------------------------------------------------------
(* The widgets: how they start *)

LEMMA InsertedFields ==
    ASSUME NEW i, bound[i] \in W!Kind, NEW p, NEW f, NEW w, w = W!Inserted(i, p, f)
    PROVE  /\ DOMAIN w = WidgetFields /\ w.last = none /\ w.position = p
           /\ bound[i] \in {"checkbox", "radio_button"} => w.shown = "unchecked"
           /\ bound[i] = "toggle" /\ ~W!win => w.shown = "off" /\ w.live
           /\ bound[i] = "reveal" /\ ~W!win => w.shown = "hidden"
           /\ bound[i] = "popup" => w.shown = 0
           /\ bound[i] = "edit_text" => w.shown = none
           /\ bound[i] # "edit_text" => ~w.flag
<1> DEFINE fresh == [last |-> none, position |-> p, shown |-> "nothing",
                     custom |-> FALSE, flag |-> FALSE, live |-> TRUE]
<1>1. /\ DOMAIN fresh = WidgetFields /\ fresh.last = none /\ fresh.position = p
      /\ ~fresh.flag /\ fresh.live
  BY DEF WidgetFields
<1>2. w = CASE bound[i] = "slider" -> [fresh EXCEPT !.shown = 0]
            [] bound[i] = "tab_group" -> [fresh EXCEPT !.shown = IF W!win THEN 1 ELSE 0]
            [] bound[i] = "popup" -> [fresh EXCEPT !.shown = 0, !.custom = items # <<>>,
                                                   !.live = items # <<>>]
            [] bound[i] = "edit_text" -> [fresh EXCEPT !.shown = none, !.flag = ~W!win /\ f]
            [] bound[i] \in {"checkbox", "radio_button"} -> [fresh EXCEPT !.shown = "unchecked"]
            [] ~W!win /\ bound[i] = "toggle" -> [fresh EXCEPT !.shown = "off"]
            [] ~W!win /\ bound[i] = "reveal" -> [fresh EXCEPT !.shown = "hidden"]
            [] OTHER -> fresh
  BY DEF W!Inserted
<1> HIDE DEF fresh
<1>3. ASSUME NEW s, w = [fresh EXCEPT !.shown = s]
      PROVE  /\ DOMAIN w = WidgetFields /\ w.last = none /\ w.position = p /\ w.shown = s
             /\ ~w.flag /\ w.live
  BY <1>1, <1>3 DEF WidgetFields
<1>4. CASE bound[i] = "slider"
  BY <1>2, <1>3, <1>4
<1>5. CASE bound[i] = "tab_group"
  BY <1>2, <1>3, <1>5
<1>6. CASE bound[i] = "popup"
  <2>1. w = [fresh EXCEPT !.shown = 0, !.custom = items # <<>>, !.live = items # <<>>]
    BY <1>2, <1>6
  <2>2. QED
    BY <1>1, <1>6, <2>1 DEF WidgetFields
<1>7. CASE bound[i] = "edit_text"
  <2>1. w = [fresh EXCEPT !.shown = none, !.flag = ~W!win /\ f]
    BY <1>2, <1>7
  <2>2. QED
    BY <1>1, <1>7, <2>1 DEF WidgetFields
<1>8. CASE bound[i] \in {"checkbox", "radio_button"}
  BY <1>2, <1>3, <1>8
<1>9. CASE bound[i] \in {"toggle", "reveal", "link"}
  <2>1. CASE ~W!win /\ bound[i] = "toggle"
    BY <1>2, <1>3, <2>1
  <2>2. CASE ~W!win /\ bound[i] = "reveal"
    BY <1>2, <1>3, <2>2
  <2>3. CASE ~(~W!win /\ bound[i] \in {"toggle", "reveal"})
    <3>1. w = fresh
      BY <1>2, <1>9, <2>3
    <3>2. QED
      BY <1>1, <1>9, <2>3, <3>1
  <2>4. QED
    BY <1>9, <2>1, <2>2, <2>3
<1>10. QED
  BY <1>4, <1>5, <1>6, <1>7, <1>8, <1>9 DEF W!Kind

\* A new widget.
Fresh(i, w, p, f) ==
    /\ platform \in {"win", "mac"} /\ bound[i] \in W!Kind
    /\ bound[i] = "radio_button" => i \in {1, 2}
    /\ w = W!Inserted(i, p, f)

\* It is good until it is told, but for one mistaken in what it displays.
LEMMA GoodInserted ==
    ASSUME NEW i, NEW w, NEW p, NEW f, Fresh(i, w, p, f)
    PROVE  Good(i, w, shared_cell, W!Mistaken(i, w), FALSE, TRUE, FALSE)
<1> USE DEF Fresh
<1> DEFINE odd == W!Mistaken(i, w)
           c == shared_cell
<1>1. /\ w.last = none /\ w.position = p
      /\ bound[i] \in {"checkbox", "radio_button"} => w.shown = "unchecked"
      /\ bound[i] = "toggle" /\ ~W!win => w.shown = "off" /\ w.live
      /\ bound[i] = "reveal" /\ ~W!win => w.shown = "hidden"
      /\ bound[i] = "popup" => w.shown = 0
      /\ bound[i] = "edit_text" => w.shown = none
      /\ bound[i] # "edit_text" => ~w.flag
  BY InsertedFields
<1>2. /\ W!win /\ c = none /\ bound[i] \in {"checkbox", "toggle", "reveal"} => odd
      /\ bound[i] = "slider" => odd \/ w.position # W!find(c) \/ w.shown = W!find(c)
  BY DEF W!Mistaken
<1> HIDE DEF odd, c
<1>3. bound[i] = "radio_button" => Consistent(i, w)
  <2>1. ASSUME bound[i] = "radio_button" PROVE Consistent(i, w)
    <3>1. i \in {1, 2}
      BY <2>1
    <3>2. none # <<W!On, W!Off>>[i]
      BY <3>1, WidgetConstants
    <3>3. QED
      BY <1>1, <2>1, <3>2, ShowsBy DEF Consistent
  <2>2. QED
    BY <2>1
<1>4. bound[i] = "edit_text" => Consistent(i, w)
  BY <1>1, ShowsBy DEF Consistent
<1>5. bound[i] \in {"toggle", "reveal"} /\ ~W!win => Consistent(i, w)
  BY <1>1, WidgetConstants, ShowsBy DEF Consistent
<1>6. ShowsRemembered(i, w, c, odd, TRUE)
  BY <1>1, <1>2, <1>3, <1>4, <1>5, OnWin DEF ShowsRemembered, Skips
<1>7. Good(i, w, c, odd, FALSE, TRUE, FALSE)
  BY <1>1, <1>2, <1>6 DEF Good, AgreesLater, RemembersCell, SliderPlaced, CustomChosen, TabUnheard
<1>8. QED
  BY <1>7 DEF odd, c

LEMMA WidgetStart ==
    ASSUME W!Init
    PROVE  WidgetInv
<1> DEFINE lists == [j \in DOMAIN bound |->
                        (IF bound[j] = "reveal" THEN <<>> ELSE <<W!Call("enable", j, none)>>)
                            \o <<W!Call("display", j, shared_cell)>>]
           due == W!FlattenSeq(lists)
<1>1. /\ platform \in {"win", "mac"} /\ bound \in Bindings /\ shared_cell \in W!CellValue
      /\ items \in W!Menus /\ calls_due = due /\ writes = 0
      /\ stray = {j \in DOMAIN bound : W!Mistaken(j, widget[j])} /\ stuck = {}
  BY DEF W!Init, W!Menus
<1>2. PICK p, f : widget = [j \in DOMAIN bound |-> W!Inserted(j, p, f)]
  BY DEF W!Init
<1>3. shared_cell \in W!Value /\ none \in W!Value
  BY <1>1, CellValues, WidgetConstants
<1>4. \A j \in DOMAIN bound : bound[j] \in W!Kind /\ (bound[j] = "radio_button" => j \in {1, 2})
  <2>1. bound \in Seq(W!Kind)
    BY <1>1, WidgetConstants
  <2>2. QED
    BY <1>1, <2>1, WidgetConstants
<1>5. DOMAIN lists = DOMAIN bound /\ lists = [j \in DOMAIN bound |-> lists[j]]
  OBVIOUS
<1>6. \A j \in DOMAIN bound :
          lists[j] = (IF bound[j] = "reveal" THEN <<>> ELSE <<W!Call("enable", j, none)>>)
                         \o <<W!Call("display", j, shared_cell)>>
  OBVIOUS
<1> HIDE DEF lists
<1>7. \A j \in DOMAIN bound :
          /\ lists[j] \in Seq(WidgetCall)
          /\ \A c \in ToSet(lists[j]) :
                 c.op \in {"enable", "display"} /\ (c.op = "display" => c.v = shared_cell)
          /\ bound[j] # "reveal" => \E c \in ToSet(lists[j]) : c.op = "enable" /\ c.i = j
          /\ \E c \in ToSet(lists[j]) : c.op = "display" /\ c.i = j
  <2>1. TAKE j \in DOMAIN bound
  <2> DEFINE a == W!Call("enable", j, none)
             b == W!Call("display", j, shared_cell)
             first == <<a>>
             second == <<b>>
             start == IF bound[j] = "reveal" THEN <<>> ELSE first
  <2>2. a.op = "enable" /\ a.i = j /\ first \in Seq(WidgetCall) /\ ToSet(first) = {a}
    BY <1>3, CallsAt
  <2>3. /\ b.op = "display" /\ b.i = j /\ b.v = shared_cell /\ second \in Seq(WidgetCall)
        /\ ToSet(second) = {b}
    BY <1>3, CallsAt
  <2>4. lists[j] = start \o second
    BY <1>6
  <2> HIDE DEF a, b, first, second
  <2>5. /\ start \in Seq(WidgetCall) /\ \A c \in ToSet(start) : c = a
        /\ bound[j] # "reveal" => a \in ToSet(start)
    <3>1. <<>> \in Seq(WidgetCall) /\ ToSet(<<>>) = {}
      BY DueNone
    <3>2. QED
      BY <2>2, <3>1
  <2> HIDE DEF start
  <2>6. lists[j] \in Seq(WidgetCall) /\ ToSet(lists[j]) = ToSet(start) \cup {b}
    BY <2>3, <2>4, <2>5, ConcatToSet
  <2>7. QED
    BY <2>2, <2>3, <2>5, <2>6
<1>8. /\ due \in Seq(WidgetCall)
      /\ \A x : x \in ToSet(due) <=> \E j \in DOMAIN bound : x \in ToSet(lists[j])
  BY <1>1, <1>5, <1>7, CallLists
<1> HIDE DEF due
<1>9. /\ \A c \in ToSet(due) :
             c.op \in {"enable", "display"} /\ (c.op = "display" => c.v = shared_cell)
      /\ \A j \in DOMAIN bound : bound[j] # "reveal" => j \in DueIn(due, "enable")
      /\ \A j \in DOMAIN bound : j \in DueIn(due, "display")
  BY <1>7, <1>8, DueWhich
<1>10. DueIn(due, "reset") = {}
  BY <1>9 DEF DueIn
<1>11. \A j \in DOMAIN bound : /\ DOMAIN widget[j] = WidgetFields /\ widget[j].last = none
                               /\ bound[j] # "edit_text" => ~widget[j].flag
  <2>1. TAKE j \in DOMAIN bound
  <2>2. widget[j] = W!Inserted(j, p, f) /\ bound[j] \in W!Kind
    BY <1>2, <1>4
  <2>3. QED
    BY <2>2, InsertedFields
<1>12. DOMAIN widget = DOMAIN bound
  BY <1>2
<1>13. WidgetTypes
  BY <1>1, <1>3, <1>8, <1>11, <1>12 DEF WidgetTypes
<1>14. LayoutLast(calls_due)
  BY <1>1, <1>8, <1>9, LayoutBefore
<1>15. CallsOnlyCell
  BY <1>1, <1>9 DEF CallsOnlyCell
<1>16. FlagsDue
  BY <1>11 DEF FlagsDue
<1>17. AllLive
  BY <1>1, <1>9 DEF AllLive, Due
<1>18. AllGood
  <2>1. ASSUME NEW j \in DOMAIN bound
        PROVE  Good(j, widget[j], shared_cell, j \in stray, j \in stuck, j \in Due("display"),
                    j \in Due("reset"))
    <3>1. widget[j] = W!Inserted(j, p, f) /\ bound[j] \in W!Kind
          /\ (bound[j] = "radio_button" => j \in {1, 2})
      BY <1>2, <1>4
    <3>2. Good(j, widget[j], shared_cell, W!Mistaken(j, widget[j]), FALSE, TRUE, FALSE)
      <4> DEFINE w == widget[j]
      <4>1. Fresh(j, w, p, f)
        BY <1>1, <3>1 DEF Fresh
      <4> HIDE DEF w
      <4>2. Good(j, w, shared_cell, W!Mistaken(j, w), FALSE, TRUE, FALSE)
        BY <4>1, GoodInserted
      <4>3. QED
        BY <4>2 DEF w
    <3>3. /\ (j \in stray) = W!Mistaken(j, widget[j]) /\ (j \in stuck) = FALSE
          /\ (j \in Due("display")) = TRUE /\ (j \in Due("reset")) = FALSE
      <4>1. W!Mistaken(j, widget[j]) \in BOOLEAN
        BY DEF W!Mistaken
      <4>2. j \in stray <=> W!Mistaken(j, widget[j])
        BY <1>1
      <4>3. j \in Due("display") /\ j \notin Due("reset") /\ j \notin stuck
        BY <1>1, <1>9, <1>10 DEF Due
      <4>4. QED
        BY <4>1, <4>2, <4>3
    <3>4. QED
      BY <3>2, <3>3
  <2>2. QED
    BY <2>1 DEF AllGood
<1>19. Displaying
  BY <1>1, <1>9 DEF Displaying, OnlyHarmless, Harmless
<1>20. QED
  BY <1>13, <1>14, <1>15, <1>16, <1>17, <1>18, <1>19 DEF WidgetInv

------------------------------------------------------------------------------
(* The widgets: theorems *)

LEMMA WidgetsSame ==
    ASSUME WidgetInv, UNCHANGED widget_vars
    PROVE  WidgetInv'
<1>1. UNCHANGED <<platform, bound, widget, shared_cell, enabled, items, calls_due, writes, stray, stuck>>
  BY DEF widget_vars
<1>2. WidgetTypes'
  <2>1. WidgetCall' = WidgetCall /\ W!CellValue' = W!CellValue /\ W!Menus' = W!Menus
    BY <1>1, CellValues DEF WidgetCall, W!Menus
  <2>2. QED
    BY <1>1, <2>1 DEF WidgetInv, WidgetTypes
<1>3. LayoutLast(calls_due)' /\ CallsOnlyCell' /\ FlagsDue' /\ AllLive'
  BY <1>1 DEF WidgetInv, LayoutLast, CallsOnlyCell, FlagsDue, AllLive, Due, DueIn
<1>4. AllGood'
  <2>1. \A j \in DOMAIN bound :
            Good(j, widget[j], shared_cell, j \in stray, j \in stuck,
                 j \in DueIn(calls_due, "display"), j \in DueIn(calls_due, "reset"))
    BY DEF WidgetInv, AllGood, Due
  <2>2. \A j \in DOMAIN bound :
            Good(j, widget'[j], shared_cell', j \in stray', j \in stuck',
                 j \in DueIn(calls_due', "display"), j \in DueIn(calls_due', "reset"))
    BY <1>1, <2>1
  <2>3. QED
    BY <1>1, <2>2, GoodNext
<1>5. Displaying => Displaying'
  BY <1>1 DEF Displaying, OnlyHarmless
<1>6. ToldByControl => ToldByControl'
  BY <1>1 DEF ToldByControl, OnlyHarmless
<1>7. ToldByUser => ToldByUser'
  <2>1. SUFFICES ASSUME ToldByUser PROVE ToldByUser'
    OBVIOUS
  <2>2. Acted(Head(calls_due').i, widget'[Head(calls_due').i], Head(calls_due').i \in stray')
    BY <1>1, <2>1 DEF ToldByUser
  <2>3. QED
    BY <1>1, <2>1, <2>2, ActedKept DEF ToldByUser
<1>8. AskingModel => AskingModel'
  <2>1. SUFFICES ASSUME AskingModel PROVE AskingModel'
    OBVIOUS
  <2>2. Asking(Head(calls_due').i, widget'[Head(calls_due').i], shared_cell',
               Head(calls_due').v, Head(calls_due').i \in stray')
    BY <1>1, <2>1 DEF AskingModel
  <2>3. QED
    BY <1>1, <2>1, <2>2, AskingNext DEF AskingModel
<1>9. Throwing => Throwing'
  BY <1>1 DEF Throwing
<1>10. QED
  BY <1>2, <1>3, <1>4, <1>5, <1>6, <1>7, <1>8, <1>9 DEF WidgetInv

LEMMA WidgetStep ==
    ASSUME WidgetInv, W!Next
    PROVE  WidgetInv'
BY GestureStep, TypeStep, UntoldStep, EnableStep, DisplayStep, ResetStep, HandlerStep, ClearStep,
   SetStep, LayoutStep, ThrowStep, CellSetStep, CellEnabledStep, ItemsSetStep DEF W!Next

LEMMA WidgetInvariance == Spec => []WidgetsOk
<1>1. Init => WidgetsOk
  <2> SUFFICES ASSUME Init
               PROVE  WidgetsOk
    OBVIOUS
  <2>1. CASE part = "widgets"
    BY <2>1, WidgetStart DEF Init, WidgetsOk
  <2>2. CASE part # "widgets"
    BY <2>2 DEF Init, WidgetsOk
  <2>3. QED
    BY <2>1, <2>2
<1>2. WidgetsOk /\ [Next]_all_vars => WidgetsOk'
  <2> SUFFICES ASSUME WidgetsOk, [Next]_all_vars
               PROVE  WidgetsOk'
    OBVIOUS
  <2>1. part' = part
    BY DEF Next, all_vars
  <2>2. CASE part = "widgets"
    <3>1. W!Next \/ UNCHANGED widget_vars
      BY <2>2 DEF Next, all_vars
    <3>2. WidgetInv
      BY <2>2 DEF WidgetsOk
    <3>3. WidgetInv'
      BY <3>1, <3>2, WidgetStep, WidgetsSame
    <3>4. QED
      BY <2>1, <2>2, <3>3 DEF WidgetsOk
  <2>3. CASE part # "widgets"
    <3>1. UNCHANGED widget_vars
      BY <2>3 DEF Next, all_vars
    <3>2. QED
      BY <2>1, <2>3, <3>1 DEF WidgetsOk, WidgetsIdle, widget_vars
  <2>4. QED
    BY <2>2, <2>3
<1>3. QED
  BY <1>1, <1>2, PTL DEF Spec, all_vars

\* The widgets of one cell: when the calls have come back every control shows the cell,
\* however it came to its value, and is enabled if the cell is; excepted are those that
\* may differ.
THEOREM WidgetsAlwaysShowCell == Spec => []ShowsCellAtRest
<1>1. WidgetsOk => ShowsCellAtRest
  <2> SUFFICES ASSUME WidgetsOk, calls_due = <<>>, NEW i \in DOMAIN bound
               PROVE  /\ i \in stray \cup stuck \/ W!Agrees(i, widget[i], shared_cell)
                      /\ bound[i] \in {"reveal", "popup"} \/ widget[i].live = enabled
    BY DEF ShowsCellAtRest, W!ShowsCellAtRest, W!AtRest
  <2>1. WidgetInv
    BY DEF WidgetsOk, WidgetsIdle
  <2>2. /\ Good(i, widget[i], shared_cell, i \in stray, i \in stuck, FALSE, FALSE)
        /\ bound[i] \in {"reveal", "popup"} \/ widget[i].live = enabled
    BY <2>1, Rested
  <2>3. i \in stray \cup stuck \/ W!Agrees(i, widget[i], shared_cell)
    BY <2>2 DEF Good, AgreesLater
  <2>4. QED
    BY <2>2, <2>3
<1>2. QED
  BY <1>1, WidgetInvariance, PTL

\* The widgets of one cell: what the user does sets the cell once, whatever controls call
\* their handlers when the new value is displayed.
THEOREM AlwaysOneWrite == Spec => []OneWritePerGesture
<1>1. WidgetsOk => OneWritePerGesture
  <2>1. WidgetInv => writes \in {0, 1}
    BY DEF WidgetInv, Displaying, ToldByControl, ToldByUser, AskingModel, Throwing
  <2>2. QED
    BY <2>1 DEF WidgetsOk, WidgetsIdle, OneWritePerGesture, W!OneWritePerGesture
<1>2. QED
  BY <1>1, WidgetInvariance, PTL
===============================================================================
