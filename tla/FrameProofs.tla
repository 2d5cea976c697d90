----------------------------- MODULE FrameProofs -----------------------------
(***************************************************************************)
(* Proofs about CtxCoroutine and FrameFilter, which have nothing to do     *)
(* with each other.                                                        *)
(*                                                                         *)
(* Coroutines, for every set of ctxs and coroutines, and for coroutines    *)
(* that yield as often as they like.  Every step moves one coroutine from  *)
(* one place to another, or takes it away; only the end of a ctx takes     *)
(* several.                                                                *)
(*                                                                         *)
(* The filter, for packets of every length, any limit, and as many packets *)
(* and connections as one likes.  The bytes that were not delivered, those *)
(* in the filter and then those on their way, are the packets that were    *)
(* not delivered, one after the other; where each begins is a function.    *)
(***************************************************************************)
EXTENDS CtxCoroutine, FrameFilter, FiniteSetTheorems, SequenceTheorems, TLAPS

(***************************************************************************)
(* Coroutines: where they are.                                             *)
(***************************************************************************)
(* The coroutine has put itself into a list, and Resume has not returned. *)
Ghost(frame) == frame.at = "suspend" /\ frame.next = None

(* The frame at i of the stack of t is where r will be gone on with. *)
HeldBy(r, t, i) ==
  /\ i \in 1 .. Len(stack[t])
  /\ stack[t][i].co = r /\ ~Ghost(stack[t][i])

UnderWay == begun \ (done \cup lost)

(* It is in a queue, in a list, or in a frame, and there once. *)
Once(r) ==
  /\ \A c, d \in Ctx :
       /\ r \in queue[c] /\ r \in queue[d] => c = d
       /\ r \in waiting[c] /\ r \in waiting[d] => c = d
       /\ r \in queue[c] => r \notin waiting[d]
  /\ \A t, u \in Thread : \A i, j \in Nat :
       HeldBy(r, t, i) /\ HeldBy(r, u, j) => t = u /\ i = j
  /\ \A t \in Thread : \A i \in Nat : \A c \in Ctx :
       HeldBy(r, t, i) => r \notin queue[c] /\ r \notin waiting[c]

Nowhere(r) ==
  /\ \A c \in Ctx : r \notin queue[c] /\ r \notin waiting[c]
  /\ \A t \in Thread : \A i \in Nat : ~HeldBy(r, t, i)

PlaceOK(r) == Once(r) /\ (r \in UnderWay <=> ~Nowhere(r))

(* It is in no ctx but the one in whose thread or list it is, and in that  *)
(* one if it was resumed there with success and runs.                      *)
CurrentOK(r) ==
  /\ \A t \in Thread : \A i \in Nat :
       HeldBy(r, t, i) =>
         /\ current[r] \in {t, None}
         /\ stack[t][i].at = "run" /\ lastWord[r] = "success" => current[r] = t
  /\ \A c \in Ctx : r \in waiting[c] => current[r] \in {c, None}

CorutineInv == \A r \in Corutine : PlaceOK(r) /\ CurrentOK(r)

(* Only the frame on top does not run.  Who has put itself into a list is  *)
(* still there when Resume returns.                                        *)
FrameOK(t, i) ==
  LET frame == stack[t][i] IN
  /\ i # Len(stack[t]) => frame.at = "run"
  /\ frame.at # "run" => frame.co # None
  /\ frame.at \in {"dispatch", "push"} => frame.next # None
  /\ Ghost(frame) => t \in Ctx /\ frame.co \in waiting[t]

StackInv == \A t \in Thread : \A i \in 1 .. Len(stack[t]) : FrameOK(t, i)

(* Who has not begun was not resumed; who was lost has yielded after a     *)
(* failure, or a ctx has ended.                                            *)
LostInv ==
  /\ \A r \in Corutine \ begun : lastWord[r] = "create"
  /\ \A r \in lost : lastWord[r] = "fail" \/ \E c \in Ctx : life[c] = "gone"

IInv == TypeOK /\ CorutineInv /\ StackInv /\ LostInv

(***************************************************************************)
(* What is done to a stack.                                                *)
(***************************************************************************)
(* A frame that runs is a frame. *)
LEMMA FrameFacts ==
  /\ \A r \in Corutine \cup {None} : Running(r) \in Frame
  /\ \A r \in Corutine : \A n \in Ctx \cup {None} :
       [co |-> r, at |-> "suspend", next |-> n] \in Frame
  /\ \A frame \in Frame :
       /\ frame.co \in Corutine \cup {None} /\ frame.next \in Ctx \cup {None}
       /\ [frame EXCEPT !.at = "dispatch"] \in Frame /\ [frame EXCEPT !.at = "push"] \in Frame
       /\ frame.at \in {"run", "suspend", "dispatch", "push"}
BY DEF Frame, Running

(* The frame on top is the last. *)
LEMMA TopFacts ==
  ASSUME TypeOK, NEW t \in Thread
  PROVE  /\ stack[t] \in Seq(Frame) /\ Len(stack[t]) \in Nat
         /\ \A i \in 1 .. Len(stack[t]) : stack[t][i] \in Frame
         /\ stack[t] # <<>> => /\ Len(stack[t]) \in 1 .. Len(stack[t])
                               /\ Len(stack[t]) # 0 /\ Top(t) \in Frame
<1>1. stack[t] \in Seq(Frame)
  BY DEF TypeOK
<1> QED
  BY <1>1 DEF Top

(* The stack of another thread stays, and of t a part does. *)
SameBelow(t, n) ==
  /\ stack' \in [Thread -> Seq(Frame)]
  /\ \A u \in Thread \ {t} : stack'[u] = stack[u]
  /\ \A i \in 1 .. n : stack'[t][i] = stack[t][i]

(* Enter puts a frame that runs on top of the stack of t. *)
LEMMA EnterFacts ==
  ASSUME TypeOK, NEW t \in Thread, NEW r \in Corutine \cup {None}, Enter(t, r)
  PROVE  /\ SameBelow(t, Len(stack[t]))
         /\ Len(stack'[t]) = Len(stack[t]) + 1
         /\ stack'[t][Len(stack[t]) + 1] = Running(r)
<1>1. stack[t] \in Seq(Frame) /\ Running(r) \in Frame
  BY FrameFacts DEF TypeOK
<1>2. stack'[t] = Append(stack[t], Running(r)) /\ stack' \in [Thread -> Seq(Frame)]
      /\ \A u \in Thread \ {t} : stack'[u] = stack[u]
  BY <1>1 DEF Enter, TypeOK
<1> HIDE DEF Running
<1> QED
  BY <1>1, <1>2 DEF SameBelow

(* Leave takes the frame on top away. *)
LEMMA LeaveFacts ==
  ASSUME TypeOK, NEW t \in Thread, stack[t] # <<>>, Leave(t)
  PROVE  /\ SameBelow(t, Len(stack[t]) - 1)
         /\ Len(stack'[t]) = Len(stack[t]) - 1
<1>1. stack[t] \in Seq(Frame) /\ Len(stack[t]) \in Nat /\ Len(stack[t]) # 0
  BY TopFacts
<1>2. SubSeq(stack[t], 1, Len(stack[t]) - 1) \in Seq(Frame)
  BY <1>1
<1>3. stack'[t] = SubSeq(stack[t], 1, Len(stack[t]) - 1)
      /\ stack' \in [Thread -> Seq(Frame)]
      /\ \A u \in Thread \ {t} : stack'[u] = stack[u]
  BY <1>2 DEF Leave, TypeOK
<1> QED
  BY <1>1, <1>3 DEF SameBelow

(* Become puts another frame in the place of the one on top. *)
LEMMA BecomeFacts ==
  ASSUME TypeOK, NEW t \in Thread, stack[t] # <<>>, NEW frame \in Frame, Become(t, frame)
  PROVE  /\ SameBelow(t, Len(stack[t]) - 1)
         /\ Len(stack'[t]) = Len(stack[t])
         /\ stack'[t][Len(stack[t])] = frame
<1>1. stack[t] \in Seq(Frame) /\ Len(stack[t]) \in Nat /\ Len(stack[t]) # 0
  BY TopFacts
<1>2. [stack[t] EXCEPT ![Len(stack[t])] = frame] \in Seq(Frame)
  BY <1>1
<1>3. stack'[t] = [stack[t] EXCEPT ![Len(stack[t])] = frame]
      /\ stack' \in [Thread -> Seq(Frame)]
      /\ \A u \in Thread \ {t} : stack'[u] = stack[u]
  BY <1>2 DEF Become, TypeOK
<1> QED
  BY <1>1, <1>3 DEF SameBelow

(* Where a coroutine is gone on with, after that. *)
LEMMA EnterHeld ==
  ASSUME TypeOK, NEW t \in Thread, NEW r \in Corutine \cup {None}, Enter(t, r),
         NEW d \in Corutine, NEW u \in Thread, NEW i \in Nat
  PROVE  /\ HeldBy(d, u, i)' <=>
              HeldBy(d, u, i) \/ (d = r /\ u = t /\ i = Len(stack[t]) + 1)
         /\ HeldBy(d, u, i) => stack'[u][i] = stack[u][i]
<1>1. Len(stack[t]) \in Nat /\ Len(stack[u]) \in Nat
  BY TopFacts
<1>2. Running(r).co = r /\ Running(r).at = "run"
  BY DEF Running
<1>3. CASE u # t
  <2>1. stack'[u] = stack[u]
    BY <1>3, EnterFacts DEF SameBelow
  <2> QED
    BY <1>1, <1>3, <2>1 DEF HeldBy, Ghost
<1>4. CASE u = t /\ i \in 1 .. Len(stack[t])
  <2>1. /\ stack'[t][i] = stack[t][i] /\ i # Len(stack[t]) + 1
        /\ i \in 1 .. Len(stack[t]) /\ i \in 1 .. Len(stack'[t])
    BY <1>1, <1>4, EnterFacts DEF SameBelow
  <2> QED
    BY <1>4, <2>1 DEF HeldBy, Ghost
<1>5. CASE u = t /\ i = Len(stack[t]) + 1
  BY <1>1, <1>2, <1>5, EnterFacts DEF HeldBy, Ghost
<1>6. CASE u = t /\ i \notin 1 .. Len(stack[t]) + 1
  BY <1>1, <1>6, EnterFacts DEF HeldBy
<1> QED
  BY <1>1, <1>3, <1>4, <1>5, <1>6

(* Leave lets go of the frame on top only. *)
LEMMA LeaveHeld ==
  ASSUME TypeOK, NEW t \in Thread, stack[t] # <<>>, Leave(t),
         NEW d \in Corutine, NEW u \in Thread, NEW i \in Nat
  PROVE  /\ HeldBy(d, u, i)' <=> HeldBy(d, u, i) /\ ~(u = t /\ i = Len(stack[t]))
         /\ HeldBy(d, u, i)' => stack'[u][i] = stack[u][i]
<1>1. Len(stack[t]) \in Nat /\ Len(stack[u]) \in Nat /\ Len(stack[t]) # 0
  BY TopFacts
<1>2. CASE u # t
  BY <1>2, LeaveFacts DEF SameBelow, HeldBy, Ghost
<1>3. CASE u = t /\ i \in 1 .. Len(stack[t]) - 1
  BY <1>1, <1>3, LeaveFacts DEF SameBelow, HeldBy, Ghost
<1>4. CASE u = t /\ i \notin 1 .. Len(stack[t]) - 1
  BY <1>1, <1>4, LeaveFacts DEF HeldBy
<1> QED
  BY <1>2, <1>3, <1>4

(* Become changes who is held in the frame on top only. *)
LEMMA BecomeHeld ==
  ASSUME TypeOK, NEW t \in Thread, stack[t] # <<>>, NEW frame \in Frame, Become(t, frame),
         NEW d \in Corutine, NEW u \in Thread, NEW i \in Nat
  PROVE  /\ u = t /\ i = Len(stack[t])
              => (HeldBy(d, u, i)' <=> frame.co = d /\ ~Ghost(frame))
         /\ ~(u = t /\ i = Len(stack[t]))
              => /\ HeldBy(d, u, i)' <=> HeldBy(d, u, i)
                 /\ HeldBy(d, u, i) => stack'[u][i] = stack[u][i]
<1>1. Len(stack[t]) \in Nat /\ Len(stack[u]) \in Nat /\ Len(stack[t]) # 0
  BY TopFacts
<1>2. CASE u # t
  BY <1>2, BecomeFacts DEF SameBelow, HeldBy, Ghost
<1>3. CASE u = t /\ i \in 1 .. Len(stack[t]) - 1
  BY <1>1, <1>3, BecomeFacts DEF SameBelow, HeldBy, Ghost
<1>4. CASE u = t /\ i = Len(stack[t])
  BY <1>1, <1>4, BecomeFacts DEF HeldBy, Ghost
<1>5. CASE u = t /\ i \notin 1 .. Len(stack[t])
  BY <1>1, <1>5, BecomeFacts DEF HeldBy
<1> QED
  BY <1>1, <1>2, <1>3, <1>4, <1>5

(* Who is on top is there, unless it has gone to a list. *)
LEMMA TopHeld ==
  ASSUME TypeOK, NEW t \in Thread, stack[t] # <<>>, NEW r \in Corutine,
         Top(t).co = r, ~Ghost(Top(t))
  PROVE  HeldBy(r, t, Len(stack[t]))
BY TopFacts DEF HeldBy, Top

(***************************************************************************)
(* Where a coroutine is after a step.                                      *)
(***************************************************************************)
(* Nothing that concerns r has changed. *)
Untouched(r) ==
  /\ \A c \in Ctx : /\ r \in queue'[c] <=> r \in queue[c]
                    /\ r \in waiting'[c] <=> r \in waiting[c]
  /\ \A t \in Thread : \A i \in Nat :
       /\ HeldBy(r, t, i)' <=> HeldBy(r, t, i)
       /\ HeldBy(r, t, i) => stack'[t][i] = stack[t][i]
  /\ r \in UnderWay' <=> r \in UnderWay
  /\ current'[r] = current[r] /\ lastWord'[r] = lastWord[r]

(* What concerns a coroutine and stays keeps its place right. *)
LEMMA UntouchedOK ==
  ASSUME NEW r \in Corutine, PlaceOK(r), CurrentOK(r), Untouched(r)
  PROVE  PlaceOK(r)' /\ CurrentOK(r)'
<1>1. Once(r)'
  BY DEF PlaceOK, Once, Untouched
<1>2. Nowhere(r)' <=> Nowhere(r)
  BY DEF Nowhere, Untouched
<1>3. CurrentOK(r)'
  BY DEF CurrentOK, Untouched
<1> QED
  BY <1>1, <1>2, <1>3 DEF PlaceOK, Untouched

(* It is in the queue of c. *)
LEMMA InQueue ==
  ASSUME NEW r \in Corutine, NEW c \in Ctx,
         \A d \in Ctx : r \in queue'[d] <=> d = c,
         \A d \in Ctx : r \notin waiting'[d],
         \A u \in Thread : \A i \in Nat : ~HeldBy(r, u, i)',
         r \in UnderWay'
  PROVE  PlaceOK(r)' /\ CurrentOK(r)'
BY DEF PlaceOK, CurrentOK, Once, Nowhere

(* It is in a list of c. *)
LEMMA InList ==
  ASSUME NEW r \in Corutine, NEW c \in Ctx,
         \A d \in Ctx : r \in waiting'[d] <=> d = c,
         \A d \in Ctx : r \notin queue'[d],
         \A u \in Thread : \A i \in Nat : ~HeldBy(r, u, i)',
         r \in UnderWay', current'[r] \in {c, None}
  PROVE  PlaceOK(r)' /\ CurrentOK(r)'
BY DEF PlaceOK, CurrentOK, Once, Nowhere

(* It is nowhere any more. *)
LEMMA IsGone ==
  ASSUME NEW r \in Corutine,
         \A d \in Ctx : r \notin queue'[d] /\ r \notin waiting'[d],
         \A u \in Thread : \A i \in Nat : ~HeldBy(r, u, i)',
         r \notin UnderWay'
  PROVE  PlaceOK(r)' /\ CurrentOK(r)'
BY DEF PlaceOK, CurrentOK, Once, Nowhere

(***************************************************************************)
(* Where a coroutine is before a step.                                     *)
(***************************************************************************)
(* Who is on top, and not in a list, is in no other place. *)
LEMMA TopPlace ==
  ASSUME TypeOK, CorutineInv, NEW t \in Thread, stack[t] # <<>>, NEW r \in Corutine,
         Top(t).co = r, ~Ghost(Top(t))
  PROVE  /\ r \in UnderWay
         /\ \A c \in Ctx : r \notin queue[c] /\ r \notin waiting[c]
         /\ \A u \in Thread : \A i \in Nat :
              HeldBy(r, u, i) <=> u = t /\ i = Len(stack[t])
         /\ current[r] \in {t, None}
         /\ Top(t).at = "run" /\ lastWord[r] = "success" => current[r] = t
<1>1. HeldBy(r, t, Len(stack[t])) /\ Len(stack[t]) \in Nat
  BY TopHeld, TopFacts
<1>2. PlaceOK(r) /\ CurrentOK(r)
  BY DEF CorutineInv
<1> QED
  BY <1>1, <1>2 DEF PlaceOK, CurrentOK, Once, Nowhere, Top

(* Who is in a queue is in no other place. *)
LEMMA QueuePlace ==
  ASSUME CorutineInv, NEW c \in Ctx, NEW r \in Corutine, r \in queue[c]
  PROVE  /\ r \in UnderWay
         /\ \A d \in Ctx : (r \in queue[d] <=> d = c) /\ r \notin waiting[d]
         /\ \A u \in Thread : \A i \in Nat : ~HeldBy(r, u, i)
<1>1. PlaceOK(r)
  BY DEF CorutineInv
<1> QED
  BY <1>1 DEF PlaceOK, Once, Nowhere

(* Who is in a list is in no other place. *)
LEMMA ListPlace ==
  ASSUME CorutineInv, NEW c \in Ctx, NEW r \in Corutine, r \in waiting[c]
  PROVE  /\ r \in UnderWay
         /\ \A d \in Ctx : (r \in waiting[d] <=> d = c) /\ r \notin queue[d]
         /\ \A u \in Thread : \A i \in Nat : ~HeldBy(r, u, i)
         /\ current[r] \in {c, None}
<1>1. PlaceOK(r) /\ CurrentOK(r)
  BY DEF CorutineInv
<1> QED
  BY <1>1 DEF PlaceOK, CurrentOK, Once, Nowhere

(* Who has not begun, or has ended, is in no place. *)
LEMMA NoPlace ==
  ASSUME CorutineInv, NEW r \in Corutine, r \notin UnderWay
  PROVE  /\ \A d \in Ctx : r \notin waiting[d] /\ r \notin queue[d]
         /\ \A u \in Thread : \A i \in Nat : ~HeldBy(r, u, i)
<1>1. PlaceOK(r)
  BY DEF CorutineInv
<1> QED
  BY <1>1 DEF PlaceOK, Once, Nowhere

(***************************************************************************)
(* What a step on a stack keeps.                                           *)
(***************************************************************************)
(* Something begins to run on a stack that is empty, or on what runs. *)
LEMMA EnterStack ==
  ASSUME TypeOK, StackInv, NEW t \in Thread, NEW r \in Corutine \cup {None}, Enter(t, r),
         stack[t] = <<>> \/ Runs(t, "run"),
         \A c \in Ctx \ {t} : waiting'[c] = waiting[c]
  PROVE  StackInv'
<1> SUFFICES ASSUME NEW u \in Thread, NEW i \in 1 .. Len(stack'[u])
             PROVE  FrameOK(u, i)'
  BY DEF StackInv
<1>1. Len(stack[t]) \in Nat /\ (stack[t] # <<>> => stack[t][Len(stack[t])].at = "run")
  BY TopFacts DEF Runs, Top
<1>2. CASE u # t
  <2>1. stack'[u] = stack[u] /\ (u \in Ctx => waiting'[u] = waiting[u])
    BY <1>2, EnterFacts DEF SameBelow
  <2>2. FrameOK(u, i)
    BY <2>1 DEF StackInv
  <2> QED
    BY <2>1, <2>2 DEF FrameOK, Ghost
<1>3. CASE u = t /\ i \in 1 .. Len(stack[t])
  <2>1. stack'[u][i] = stack[u][i]
    BY <1>3, EnterFacts DEF SameBelow
  <2>2. stack[u][i].at = "run"
    <3>1. FrameOK(u, i) /\ stack[t] # <<>>
      BY <1>1, <1>3, TopFacts DEF StackInv
    <3> QED
      BY <1>1, <1>3, <3>1 DEF FrameOK
  <2> QED
    BY <2>1, <2>2 DEF FrameOK, Ghost
<1>4. CASE u = t /\ i = Len(stack[t]) + 1
  <2>1. stack'[u][i] = Running(r) /\ Running(r).at = "run"
    BY <1>4, EnterFacts DEF Running
  <2> QED
    BY <2>1 DEF FrameOK, Ghost
<1> QED
  BY <1>1, <1>2, <1>3, <1>4, EnterFacts

(* What was on top has ended, or will be resumed elsewhere. *)
LEMMA LeaveStack ==
  ASSUME TypeOK, StackInv, NEW t \in Thread, stack[t] # <<>>, Leave(t), UNCHANGED waiting
  PROVE  StackInv'
<1> SUFFICES ASSUME NEW u \in Thread, NEW i \in 1 .. Len(stack'[u])
             PROVE  FrameOK(u, i)'
  BY DEF StackInv
<1>1. Len(stack[t]) \in Nat /\ Len(stack[t]) # 0
  BY TopFacts
<1>2. CASE u # t
  <2>1. stack'[u] = stack[u]
    BY <1>2, LeaveFacts DEF SameBelow
  <2>2. FrameOK(u, i)
    BY <2>1 DEF StackInv
  <2> QED
    BY <2>1, <2>2 DEF FrameOK, Ghost
<1>3. CASE u = t
  <2>1. /\ i \in 1 .. Len(stack[t]) - 1 /\ i \in 1 .. Len(stack[t]) /\ i # Len(stack[t])
        /\ stack'[u][i] = stack[u][i]
    BY <1>1, <1>3, LeaveFacts DEF SameBelow
  <2>2. FrameOK(u, i)
    BY <1>3, <2>1 DEF StackInv
  <2> QED
    BY <1>3, <2>1, <2>2 DEF FrameOK, Ghost
<1> QED
  BY <1>2, <1>3

(* What is on top has come to another point. *)
LEMMA BecomeStack ==
  ASSUME TypeOK, StackInv, NEW t \in Thread, stack[t] # <<>>,
         NEW frame \in Frame, Become(t, frame),
         \A c \in Ctx \ {t} : waiting'[c] = waiting[c],
         frame.at # "run" => frame.co # None,
         frame.at \in {"dispatch", "push"} => frame.next # None,
         Ghost(frame) => t \in Ctx /\ frame.co \in waiting'[t]
  PROVE  StackInv'
<1> SUFFICES ASSUME NEW u \in Thread, NEW i \in 1 .. Len(stack'[u])
             PROVE  FrameOK(u, i)'
  BY DEF StackInv
<1>1. Len(stack[t]) \in Nat /\ Len(stack[t]) # 0
  BY TopFacts
<1>2. CASE u # t
  <2>1. stack'[u] = stack[u] /\ (u \in Ctx => waiting'[u] = waiting[u])
    BY <1>2, BecomeFacts DEF SameBelow
  <2>2. FrameOK(u, i)
    BY <2>1 DEF StackInv
  <2> QED
    BY <2>1, <2>2 DEF FrameOK, Ghost
<1>3. CASE u = t /\ i # Len(stack[t])
  <2>1. /\ i \in 1 .. Len(stack[t]) - 1 /\ i \in 1 .. Len(stack[t])
        /\ stack'[u][i] = stack[u][i]
    BY <1>1, <1>3, BecomeFacts DEF SameBelow
  <2>2. stack[u][i].at = "run"
    BY <1>3, <2>1 DEF StackInv, FrameOK
  <2> QED
    BY <2>1, <2>2 DEF FrameOK, Ghost
<1>4. CASE u = t /\ i = Len(stack[t])
  <2>1. stack'[u][i] = frame /\ Len(stack'[u]) = i
    BY <1>4, BecomeFacts
  <2> QED
    BY <1>4, <2>1 DEF FrameOK, Ghost
<1> QED
  BY <1>2, <1>3, <1>4

(* Who begins to run on top of a stack was nowhere else. *)
LEMMA EnterCorutine ==
  ASSUME TypeOK, CorutineInv, NEW t \in Thread, NEW r \in Corutine, Enter(t, r),
         \A u \in Thread : \A i \in Nat : ~HeldBy(r, u, i),
         \A c \in Ctx : r \notin queue'[c] /\ r \notin waiting'[c],
         r \in UnderWay', current'[r] \in {t, None},
         lastWord'[r] = "success" => current'[r] = t,
         \A d \in Corutine \ {r} :
           /\ \A c \in Ctx : /\ d \in queue'[c] <=> d \in queue[c]
                             /\ d \in waiting'[c] <=> d \in waiting[c]
           /\ d \in UnderWay' <=> d \in UnderWay
           /\ current'[d] = current[d] /\ lastWord'[d] = lastWord[d]
  PROVE  CorutineInv'
<1>1. PICK k \in Nat : k = Len(stack[t]) + 1
  BY TopFacts
<1>2. PlaceOK(r)' /\ CurrentOK(r)'
  <2>1. \A u \in Thread : \A i \in Nat : HeldBy(r, u, i)' <=> u = t /\ i = k
    BY <1>1, EnterHeld
  <2> QED
    BY <2>1 DEF PlaceOK, CurrentOK, Once, Nowhere
<1>3. ASSUME NEW d \in Corutine \ {r}
      PROVE  PlaceOK(d)' /\ CurrentOK(d)'
  <2>1. \A u \in Thread : \A i \in Nat :
          /\ HeldBy(d, u, i)' <=> HeldBy(d, u, i)
          /\ HeldBy(d, u, i) => stack'[u][i] = stack[u][i]
    BY EnterHeld
  <2>2. Untouched(d)
    BY <2>1 DEF Untouched
  <2> QED
    BY <2>2, UntouchedOK DEF CorutineInv
<1> QED
  BY <1>2, <1>3 DEF CorutineInv

(* When the frame on top goes, the others stay where they are. *)
LEMMA LeaveOthers ==
  ASSUME TypeOK, CorutineInv, NEW t \in Thread, stack[t] # <<>>, Leave(t),
         NEW d \in Corutine, d # Top(t).co \/ Ghost(Top(t)),
         \A c \in Ctx : /\ d \in queue'[c] <=> d \in queue[c]
                        /\ d \in waiting'[c] <=> d \in waiting[c],
         d \in UnderWay' <=> d \in UnderWay,
         current'[d] = current[d] /\ lastWord'[d] = lastWord[d]
  PROVE  PlaceOK(d)' /\ CurrentOK(d)'
<1>1. ~HeldBy(d, t, Len(stack[t]))
  BY DEF HeldBy, Top
<1>2. \A u \in Thread : \A i \in Nat :
        /\ HeldBy(d, u, i)' <=> HeldBy(d, u, i)
        /\ HeldBy(d, u, i) => stack'[u][i] = stack[u][i]
  BY <1>1, LeaveHeld
<1>3. Untouched(d)
  BY <1>2 DEF Untouched
<1> QED
  BY <1>3, UntouchedOK DEF CorutineInv

(* And when it comes to another point. *)
LEMMA BecomeOthers ==
  ASSUME TypeOK, CorutineInv, NEW t \in Thread, stack[t] # <<>>,
         NEW frame \in Frame, Become(t, frame), frame.co = Top(t).co,
         NEW d \in Corutine, d # Top(t).co,
         \A c \in Ctx : /\ d \in queue'[c] <=> d \in queue[c]
                        /\ d \in waiting'[c] <=> d \in waiting[c],
         d \in UnderWay' <=> d \in UnderWay,
         current'[d] = current[d] /\ lastWord'[d] = lastWord[d]
  PROVE  PlaceOK(d)' /\ CurrentOK(d)'
<1>1. ~HeldBy(d, t, Len(stack[t]))
  BY DEF HeldBy, Top
<1>2. \A u \in Thread : \A i \in Nat :
        /\ HeldBy(d, u, i)' <=> HeldBy(d, u, i)
        /\ HeldBy(d, u, i) => stack'[u][i] = stack[u][i]
  BY <1>1, BecomeHeld
<1>3. Untouched(d)
  BY <1>2 DEF Untouched
<1> QED
  BY <1>3, UntouchedOK DEF CorutineInv

(***************************************************************************)
(* The steps.                                                              *)
(***************************************************************************)
(* A new coroutine begins to run, which was nowhere. *)
LEMMA CreateStep ==
  ASSUME IInv, NEW t \in Thread, NEW r \in Corutine, CreateCoroutine(t, r)
  PROVE  IInv'
<1>1. TypeOK /\ CorutineInv /\ StackInv /\ LostInv
  BY DEF IInv
<1>2. /\ r \notin begun /\ r \notin done /\ r \notin lost /\ r \notin UnderWay
      /\ begun' = begun \cup {r} /\ Enter(t, r)
      /\ UNCHANGED <<life, queue, waiting, yields, done, lost, lastWord>>
  BY <1>1 DEF CreateCoroutine, TypeOK, UnderWay
<1>3. /\ current' \in [Corutine -> Ctx \cup {None}] /\ current'[r] \in {t, None}
      /\ \A d \in Corutine \ {r} : current'[d] = current[d]
  BY <1>1 DEF CreateCoroutine, TypeOK
<1>4. TypeOK'
  <2>1. stack' \in [Thread -> Seq(Frame)]
    BY <1>1, <1>2, EnterFacts DEF SameBelow
  <2> QED
    BY <1>1, <1>2, <1>3, <2>1 DEF TypeOK
<1>5. CorutineInv'
  <2>1. /\ \A u \in Thread : \A i \in Nat : ~HeldBy(r, u, i)
        /\ \A c \in Ctx : r \notin queue[c] /\ r \notin waiting[c]
    BY <1>1, <1>2, NoPlace
  <2>2. r \in UnderWay' /\ \A d \in Corutine \ {r} : d \in UnderWay' <=> d \in UnderWay
    BY <1>2 DEF UnderWay
  <2>3. lastWord'[r] # "success"
    BY <1>1, <1>2 DEF LostInv
  <2> QED
    BY <1>1, <1>2, <1>3, <2>1, <2>2, <2>3, EnterCorutine
<1>6. StackInv'
  <2>1. stack[t] = <<>> \/ Runs(t, "run")
    BY DEF CreateCoroutine
  <2> QED
    BY <1>1, <1>2, <2>1, EnterStack
<1>7. LostInv'
  BY <1>1, <1>2 DEF LostInv
<1> QED
  BY <1>4, <1>5, <1>6, <1>7 DEF IInv

(* A coroutine leaves the queue and runs. *)
LEMMA DispatchMsgStep ==
  ASSUME IInv, NEW c \in Ctx, NEW r \in Corutine, DispatchMsg(c, r)
  PROVE  IInv'
<1>1. TypeOK /\ CorutineInv /\ StackInv /\ LostInv /\ c \in Thread
  BY DEF IInv, Thread
<1>2. /\ r \in queue[c] /\ stack[c] = <<>> /\ Enter(c, r)
      /\ UNCHANGED <<life, waiting, yields, begun, done, lost>>
  BY DEF DispatchMsg
<1>3. /\ r \in UnderWay
      /\ \A d \in Ctx : (r \in queue[d] <=> d = c) /\ r \notin waiting[d]
      /\ \A u \in Thread : \A i \in Nat : ~HeldBy(r, u, i)
  BY <1>1, <1>2, QueuePlace
<1>4. /\ queue' \in [Ctx -> SUBSET Corutine]
      /\ \A d \in Ctx : r \notin queue'[d]
      /\ \A e \in Corutine \ {r} : \A d \in Ctx : e \in queue'[d] <=> e \in queue[d]
  BY <1>1, <1>3 DEF DispatchMsg, TypeOK
<1>5. /\ current' \in [Corutine -> Ctx \cup {None}] /\ current'[r] = c
      /\ \A d \in Corutine \ {r} : current'[d] = current[d] /\ lastWord'[d] = lastWord[d]
      /\ lastWord' \in [Corutine -> {"create", "success", "fail"}]
  BY <1>1 DEF DispatchMsg, TypeOK
<1>6. TypeOK'
  <2>1. stack' \in [Thread -> Seq(Frame)]
    BY <1>1, <1>2, EnterFacts DEF SameBelow
  <2> QED
    BY <1>1, <1>2, <1>4, <1>5, <2>1 DEF TypeOK
<1>7. CorutineInv'
  <2>1. \A d \in Corutine : d \in UnderWay' <=> d \in UnderWay
    BY <1>2 DEF UnderWay
  <2> QED
    BY <1>1, <1>2, <1>3, <1>4, <1>5, <2>1, EnterCorutine
<1>8. StackInv'
  BY <1>1, <1>2, EnterStack
<1>9. LostInv'
  BY <1>1, <1>2, <1>3, <1>5 DEF LostInv, UnderWay, TypeOK
<1> QED
  BY <1>6, <1>7, <1>8, <1>9 DEF IInv

(* A coroutine leaves a list, whether with success or not. *)
LEMMA ResumeStep ==
  ASSUME IInv, NEW c \in Ctx, NEW r \in Corutine,
         ResumeCoroutine(c, r) \/ ResumeCoroutineFail(c, r)
  PROVE  IInv'
<1>1. TypeOK /\ CorutineInv /\ StackInv /\ LostInv /\ c \in Thread
  BY DEF IInv, Thread
<1>2. /\ r \in waiting[c] /\ Runs(c, "run") /\ Enter(c, r)
      /\ waiting' = [waiting EXCEPT ![c] = @ \ {r}]
      /\ UNCHANGED <<life, queue, yields, begun, done, lost>>
  BY DEF ResumeCoroutine, ResumeCoroutineFail
<1>3. /\ r \in UnderWay
      /\ \A d \in Ctx : (r \in waiting[d] <=> d = c) /\ r \notin queue[d]
      /\ \A u \in Thread : \A i \in Nat : ~HeldBy(r, u, i)
      /\ current[r] \in {c, None}
  BY <1>1, <1>2, ListPlace
<1>4. /\ waiting' \in [Ctx -> SUBSET Corutine]
      /\ \A d \in Ctx : r \notin waiting'[d]
      /\ \A e \in Corutine \ {r} : \A d \in Ctx : e \in waiting'[d] <=> e \in waiting[d]
      /\ \A d \in Ctx \ {c} : waiting'[d] = waiting[d]
  BY <1>1, <1>2, <1>3 DEF TypeOK
<1>5. /\ current' \in [Corutine -> Ctx \cup {None}] /\ current'[r] \in {c, None}
      /\ lastWord'[r] = "success" => current'[r] = c
      /\ \A d \in Corutine \ {r} : current'[d] = current[d] /\ lastWord'[d] = lastWord[d]
      /\ lastWord' \in [Corutine -> {"create", "success", "fail"}]
  <2>1. CASE ResumeCoroutine(c, r)
    BY <1>1, <2>1 DEF ResumeCoroutine, TypeOK
  <2>2. CASE ResumeCoroutineFail(c, r)
    BY <1>1, <1>3, <2>2 DEF ResumeCoroutineFail, TypeOK
  <2> QED
    BY <2>1, <2>2
<1>6. TypeOK'
  <2>1. stack' \in [Thread -> Seq(Frame)]
    BY <1>1, <1>2, EnterFacts DEF SameBelow
  <2> QED
    BY <1>1, <1>2, <1>4, <1>5, <2>1 DEF TypeOK
<1>7. CorutineInv'
  <2>1. \A d \in Corutine : d \in UnderWay' <=> d \in UnderWay
    BY <1>2 DEF UnderWay
  <2> QED
    BY <1>1, <1>2, <1>3, <1>4, <1>5, <2>1, EnterCorutine
<1>8. StackInv'
  BY <1>1, <1>2, <1>4, EnterStack
<1>9. LostInv'
  BY <1>1, <1>2, <1>3, <1>5 DEF LostInv, UnderWay, TypeOK
<1> QED
  BY <1>6, <1>7, <1>8, <1>9 DEF IInv

(* A handler without a coroutine begins or ends. *)
LEMMA OtherStep ==
  ASSUME IInv, NEW c \in Ctx, DispatchOther(c) \/ OtherEnds(c)
  PROVE  IInv'
<1>1. TypeOK /\ CorutineInv /\ StackInv /\ LostInv /\ c \in Thread /\ None \notin Corutine
  BY CoroutineAssumption DEF IInv, Thread
<1>2. UNCHANGED <<life, queue, waiting, current, yields, begun, done, lost, lastWord>>
  BY DEF DispatchOther, OtherEnds
<1>3. \A d \in Corutine : d \in UnderWay' <=> d \in UnderWay
  BY <1>2 DEF UnderWay
<1>4. CASE DispatchOther(c)
  <2>1. Enter(c, None) /\ stack[c] = <<>>
    BY <1>4 DEF DispatchOther
  <2>2. StackInv' /\ stack' \in [Thread -> Seq(Frame)]
    BY <1>1, <1>2, <2>1, EnterStack, EnterFacts DEF SameBelow
  <2>3. ASSUME NEW d \in Corutine
        PROVE  PlaceOK(d)' /\ CurrentOK(d)'
    <3>1. Untouched(d)
      BY <1>1, <1>2, <1>3, <2>1, EnterHeld DEF Untouched
    <3> QED
      BY <1>1, <3>1, UntouchedOK DEF CorutineInv
  <2> QED
    BY <1>1, <1>2, <2>2, <2>3 DEF IInv, TypeOK, CorutineInv, LostInv
<1>5. CASE OtherEnds(c)
  <2>1. Leave(c) /\ stack[c] # <<>> /\ Top(c).co = None
    BY <1>5 DEF OtherEnds, Runs
  <2>2. StackInv' /\ stack' \in [Thread -> Seq(Frame)]
    BY <1>1, <1>2, <2>1, LeaveStack, LeaveFacts DEF SameBelow
  <2>3. ASSUME NEW d \in Corutine
        PROVE  PlaceOK(d)' /\ CurrentOK(d)'
    BY <1>1, <1>2, <1>3, <2>1, LeaveOthers
  <2> QED
    BY <1>1, <1>2, <2>2, <2>3 DEF IInv, TypeOK, CorutineInv, LostInv
<1> QED
  BY <1>4, <1>5

(* A coroutine that runs on top ends. *)
LEMMA FinishStep ==
  ASSUME IInv, NEW t \in Thread, FinishFunc(t)
  PROVE  IInv'
<1>1. TypeOK /\ CorutineInv /\ StackInv /\ LostInv
  BY DEF IInv
<1>2. /\ stack[t] # <<>> /\ Top(t).at = "run" /\ ~Ghost(Top(t)) /\ Leave(t)
      /\ UNCHANGED <<life, queue, waiting, current, yields, begun, lost, lastWord>>
  BY DEF FinishFunc, Runs, Ghost
<1>3. PICK r \in Corutine : r = Top(t).co /\ done' = done \cup {r}
  BY <1>1, <1>2, TopFacts, FrameFacts DEF FinishFunc
<1>4. /\ r \in UnderWay
      /\ \A c \in Ctx : r \notin queue[c] /\ r \notin waiting[c]
      /\ \A u \in Thread : \A i \in Nat : HeldBy(r, u, i) <=> u = t /\ i = Len(stack[t])
  BY <1>1, <1>2, <1>3, TopPlace
<1>5. TypeOK'
  <2>1. stack' \in [Thread -> Seq(Frame)]
    BY <1>1, <1>2, LeaveFacts DEF SameBelow
  <2> QED
    BY <1>1, <1>2, <1>3, <1>4, <2>1 DEF TypeOK, UnderWay
<1>6. CorutineInv'
  <2>1. r \notin UnderWay' /\ \A d \in Corutine \ {r} : d \in UnderWay' <=> d \in UnderWay
    BY <1>2, <1>3 DEF UnderWay
  <2>2. PlaceOK(r)' /\ CurrentOK(r)'
    <3>1. \A u \in Thread : \A i \in Nat : ~HeldBy(r, u, i)'
      BY <1>1, <1>2, <1>3, <1>4, LeaveHeld
    <3> QED
      BY <1>2, <1>3, <1>4, <2>1, <3>1, IsGone
  <2>3. ASSUME NEW d \in Corutine \ {r}
        PROVE  PlaceOK(d)' /\ CurrentOK(d)'
    BY <1>1, <1>2, <1>3, <2>1, LeaveOthers
  <2> QED
    BY <2>2, <2>3 DEF CorutineInv
<1>7. StackInv'
  BY <1>1, <1>2, LeaveStack
<1>8. LostInv'
  BY <1>1, <1>2 DEF LostInv
<1> QED
  BY <1>5, <1>6, <1>7, <1>8 DEF IInv

(* Who yields after a failure is lost, everybody else is on the way.       *)
LEMMA YieldStep ==
  ASSUME IInv, NEW t \in Thread, NEW c \in Ctx, YieldCoroutine(t, c)
  PROVE  IInv'
<1>1. TypeOK /\ CorutineInv /\ StackInv /\ LostInv /\ c # None
  BY CoroutineAssumption DEF IInv
<1>2. /\ stack[t] # <<>> /\ Top(t).at = "run" /\ ~Ghost(Top(t))
      /\ UNCHANGED <<life, queue, waiting, current, begun, done, lastWord>>
  BY DEF YieldCoroutine, Yields, Runs, Ghost
<1>3. PICK r \in Corutine :
        /\ r = Top(t).co
        /\ yields[r] < MaxYield /\ yields' = [yields EXCEPT ![r] = @ + 1]
  BY <1>1, <1>2, TopFacts, FrameFacts DEF YieldCoroutine, Yields
<1> DEFINE frame == [co |-> r, at |-> "suspend", next |-> c]
<1>4. /\ r \in UnderWay
      /\ \A d \in Ctx : r \notin queue[d] /\ r \notin waiting[d]
      /\ \A u \in Thread : \A i \in Nat : HeldBy(r, u, i) <=> u = t /\ i = Len(stack[t])
      /\ current[r] \in {t, None}
  BY <1>1, <1>2, <1>3, TopPlace
<1>5. yields' \in [Corutine -> 0..MaxYield]
  BY <1>1, <1>2, <1>3, CoroutineAssumption DEF TypeOK
<1>6. CASE lastWord[r] = "fail"
  <2>1. lost' = lost \cup {r} /\ Leave(t)
    BY <1>3, <1>6 DEF YieldCoroutine
  <2>2. TypeOK'
    <3>1. stack' \in [Thread -> Seq(Frame)]
      BY <1>1, <1>2, <2>1, LeaveFacts DEF SameBelow
    <3> QED
      BY <1>1, <1>2, <1>4, <1>5, <2>1, <3>1 DEF TypeOK, UnderWay
  <2>3. CorutineInv'
    <3>1. r \notin UnderWay' /\ \A d \in Corutine \ {r} : d \in UnderWay' <=> d \in UnderWay
      BY <1>2, <2>1 DEF UnderWay
    <3>2. PlaceOK(r)' /\ CurrentOK(r)'
      <4>1. \A u \in Thread : \A i \in Nat : ~HeldBy(r, u, i)'
        BY <1>1, <1>2, <1>3, <1>4, <2>1, LeaveHeld
      <4> QED
        BY <1>2, <1>3, <1>4, <3>1, <4>1, IsGone
    <3>3. ASSUME NEW d \in Corutine \ {r}
          PROVE  PlaceOK(d)' /\ CurrentOK(d)'
      BY <1>1, <1>2, <1>3, <2>1, <3>1, LeaveOthers
    <3> QED
      BY <3>2, <3>3 DEF CorutineInv
  <2>4. StackInv'
    BY <1>1, <1>2, <2>1, LeaveStack
  <2>5. LostInv'
    BY <1>1, <1>2, <1>6, <2>1 DEF LostInv
  <2> QED
    BY <2>2, <2>3, <2>4, <2>5 DEF IInv
<1>7. CASE lastWord[r] # "fail"
  <2>1. /\ frame \in Frame /\ frame.co = r /\ frame.at = "suspend" /\ frame.next = c
        /\ ~Ghost(frame)
    BY <1>1, <1>3, FrameFacts DEF Ghost
  <2>2. lost' = lost /\ Become(t, frame)
    BY <1>3, <1>7 DEF YieldCoroutine
  <2> HIDE DEF frame
  <2>3. TypeOK'
    <3>1. stack' \in [Thread -> Seq(Frame)]
      BY <1>1, <1>2, <2>1, <2>2, BecomeFacts DEF SameBelow
    <3> QED
      BY <1>1, <1>2, <1>5, <2>2, <3>1 DEF TypeOK
  <2>4. CorutineInv'
    <3>1. \A d \in Corutine : d \in UnderWay' <=> d \in UnderWay
      BY <1>2, <2>2 DEF UnderWay
    <3>2. PlaceOK(r)' /\ CurrentOK(r)'
      <4>1. \A u \in Thread : \A i \in Nat :
              HeldBy(r, u, i)' <=> u = t /\ i = Len(stack[t])
        BY <1>1, <1>2, <1>3, <1>4, <2>1, <2>2, BecomeHeld
      <4>2. stack'[t][Len(stack[t])].at # "run" /\ Len(stack[t]) \in Nat
        BY <1>1, <1>2, <2>1, <2>2, BecomeFacts, TopFacts
      <4> QED
        BY <1>2, <1>3, <1>4, <3>1, <4>1, <4>2 DEF PlaceOK, CurrentOK, Once, Nowhere
    <3>3. ASSUME NEW d \in Corutine \ {r}
          PROVE  PlaceOK(d)' /\ CurrentOK(d)'
      BY <1>1, <1>2, <1>3, <2>1, <2>2, <3>1, BecomeOthers
    <3> QED
      BY <3>2, <3>3 DEF CorutineInv
  <2>5. StackInv'
    BY <1>1, <1>2, <1>3, <2>1, <2>2, CoroutineAssumption, BecomeStack
  <2>6. LostInv'
    BY <1>1, <1>2, <2>2 DEF LostInv
  <2> QED
    BY <2>3, <2>4, <2>5, <2>6 DEF IInv
<1> QED
  BY <1>6, <1>7

(* From the frame into a list of the ctx. *)
LEMMA YieldToNobodyStep ==
  ASSUME IInv, NEW c \in Ctx, YieldToNobody(c)
  PROVE  IInv'
<1>1. TypeOK /\ CorutineInv /\ StackInv /\ LostInv /\ c \in Thread
  BY DEF IInv, Thread
<1>2. /\ stack[c] # <<>> /\ Top(c).at = "run" /\ ~Ghost(Top(c))
      /\ UNCHANGED <<life, queue, current, begun, done, lost, lastWord>>
  BY DEF YieldToNobody, Yields, Runs, Ghost
<1>3. PICK r \in Corutine :
        /\ r = Top(c).co /\ current[r] = c
        /\ yields[r] < MaxYield /\ yields' = [yields EXCEPT ![r] = @ + 1]
        /\ waiting' = [waiting EXCEPT ![c] = @ \cup {r}]
        /\ Become(c, [co |-> r, at |-> "suspend", next |-> None])
  BY <1>1, <1>2, TopFacts, FrameFacts DEF YieldToNobody, Yields
<1> DEFINE frame == [co |-> r, at |-> "suspend", next |-> None]
<1>4. /\ r \in UnderWay
      /\ \A d \in Ctx : r \notin queue[d] /\ r \notin waiting[d]
      /\ \A u \in Thread : \A i \in Nat : HeldBy(r, u, i) <=> u = c /\ i = Len(stack[c])
  BY <1>1, <1>2, <1>3, TopPlace
<1>5. yields' \in [Corutine -> 0..MaxYield]
  BY <1>1, <1>2, <1>3, CoroutineAssumption DEF TypeOK
<1>6. /\ frame \in Frame /\ frame.co = r /\ frame.at = "suspend" /\ Ghost(frame)
      /\ Become(c, frame)
  BY <1>3, FrameFacts DEF Ghost
<1>7. /\ waiting' \in [Ctx -> SUBSET Corutine]
      /\ \A d \in Ctx \ {c} : waiting'[d] = waiting[d]
      /\ \A d \in Ctx : r \in waiting'[d] <=> d = c
      /\ \A e \in Corutine \ {r} : \A d \in Ctx : e \in waiting'[d] <=> e \in waiting[d]
  BY <1>1, <1>2, <1>3, <1>4 DEF TypeOK
<1> HIDE DEF frame
<1>8. TypeOK'
  <2>1. stack' \in [Thread -> Seq(Frame)]
    BY <1>1, <1>2, <1>6, BecomeFacts DEF SameBelow
  <2> QED
    BY <1>1, <1>2, <1>5, <1>7, <2>1 DEF TypeOK
<1>9. CorutineInv'
  <2>1. \A d \in Corutine : d \in UnderWay' <=> d \in UnderWay
    BY <1>2 DEF UnderWay
  <2>2. PlaceOK(r)' /\ CurrentOK(r)'
    <3>1. \A u \in Thread : \A i \in Nat : ~HeldBy(r, u, i)'
      BY <1>1, <1>2, <1>3, <1>4, <1>6, BecomeHeld
    <3> QED
      BY <1>2, <1>3, <1>4, <1>7, <2>1, <3>1, InList
  <2>3. ASSUME NEW d \in Corutine \ {r}
        PROVE  PlaceOK(d)' /\ CurrentOK(d)'
    BY <1>1, <1>2, <1>3, <1>6, <1>7, <2>1, BecomeOthers
  <2> QED
    BY <2>2, <2>3 DEF CorutineInv
<1>10. StackInv'
  BY <1>1, <1>2, <1>3, <1>6, <1>7, CoroutineAssumption, BecomeStack
<1>11. LostInv'
  BY <1>1, <1>2 DEF LostInv
<1> QED
  BY <1>8, <1>9, <1>10, <1>11 DEF IInv

(* Who is in a list stays there and loses its ctx; the others are on the   *)
(* way to the next one.                                                    *)
LEMMA ReturnStep ==
  ASSUME IInv, NEW t \in Thread, ResumeReturns(t)
  PROVE  IInv'
<1>1. TypeOK /\ CorutineInv /\ StackInv /\ LostInv
  BY DEF IInv
<1>2. /\ stack[t] # <<>> /\ Top(t).at = "suspend"
      /\ UNCHANGED <<life, queue, waiting, yields, begun, done, lost, lastWord>>
      /\ Len(stack[t]) \in 1 .. Len(stack[t]) /\ Len(stack[t]) \in Nat
      /\ Top(t) = stack[t][Len(stack[t])]
  BY <1>1, TopFacts DEF ResumeReturns, Runs, Top
<1>3. FrameOK(t, Len(stack[t]))
  BY <1>1, <1>2 DEF StackInv
<1>4. PICK r \in Corutine :
        /\ r = Top(t).co
        /\ IF lastWord[r] = "create" THEN UNCHANGED current
                                     ELSE current' = [current EXCEPT ![r] = None]
  BY <1>1, <1>2, <1>3, TopFacts, FrameFacts DEF ResumeReturns, FrameOK
<1>5. /\ current' \in [Corutine -> Ctx \cup {None}]
      /\ current'[r] \in {current[r], None}
      /\ \A d \in Corutine \ {r} : current'[d] = current[d]
  BY <1>1, <1>4 DEF TypeOK
<1>6. \A d \in Corutine : d \in UnderWay' <=> d \in UnderWay
  BY <1>2 DEF UnderWay
<1>7. LostInv'
  BY <1>1, <1>2 DEF LostInv
<1>8. CASE Top(t).next = None
  <2>1. Leave(t) /\ Ghost(Top(t)) /\ t \in Ctx /\ r \in waiting[t]
    BY <1>2, <1>3, <1>4, <1>8 DEF ResumeReturns, FrameOK, Ghost
  <2>2. /\ \A d \in Ctx : (r \in waiting[d] <=> d = t) /\ r \notin queue[d]
        /\ \A u \in Thread : \A i \in Nat : ~HeldBy(r, u, i)
        /\ current[r] \in {t, None} /\ r \in UnderWay
    BY <1>1, <2>1, ListPlace
  <2>3. TypeOK' /\ StackInv'
    <3>1. stack' \in [Thread -> Seq(Frame)]
      BY <1>1, <1>2, <2>1, LeaveFacts DEF SameBelow
    <3> QED
      BY <1>1, <1>2, <1>5, <2>1, <3>1, LeaveStack DEF TypeOK
  <2>4. PlaceOK(r)' /\ CurrentOK(r)'
    <3>1. \A u \in Thread : \A i \in Nat : ~HeldBy(r, u, i)'
      BY <1>1, <1>2, <2>1, <2>2, LeaveHeld
    <3> QED
      BY <1>2, <1>5, <1>6, <2>1, <2>2, <3>1, InList
  <2>5. ASSUME NEW d \in Corutine \ {r}
        PROVE  PlaceOK(d)' /\ CurrentOK(d)'
    BY <1>1, <1>2, <1>4, <1>5, <1>6, <2>1, LeaveOthers
  <2> QED
    BY <1>7, <2>3, <2>4, <2>5 DEF IInv, CorutineInv
<1>9. CASE Top(t).next # None
  <2>1. PICK frame \in Frame :
          /\ frame.co = r /\ frame.at = "dispatch" /\ frame.next = Top(t).next
          /\ Become(t, frame)
    <3>1. Top(t) \in Frame
      BY <1>1, <1>2, TopFacts
    <3>2. /\ [Top(t) EXCEPT !.at = "dispatch"].co = r
          /\ [Top(t) EXCEPT !.at = "dispatch"].at = "dispatch"
          /\ [Top(t) EXCEPT !.at = "dispatch"].next = Top(t).next
          /\ [Top(t) EXCEPT !.at = "dispatch"] \in Frame
      BY <1>4, <3>1 DEF Frame
    <3> QED
      BY <1>9, <3>2 DEF ResumeReturns
  <2>2. ~Ghost(Top(t)) /\ ~Ghost(frame)
    BY <1>9, <2>1 DEF Ghost
  <2>3. /\ r \in UnderWay
        /\ \A c \in Ctx : r \notin queue[c] /\ r \notin waiting[c]
        /\ \A u \in Thread : \A i \in Nat : HeldBy(r, u, i) <=> u = t /\ i = Len(stack[t])
        /\ current[r] \in {t, None}
    BY <1>1, <1>2, <1>4, <2>2, TopPlace
  <2>4. TypeOK' /\ StackInv'
    <3>1. stack' \in [Thread -> Seq(Frame)]
      BY <1>1, <1>2, <2>1, BecomeFacts DEF SameBelow
    <3>2. StackInv'
      BY <1>1, <1>2, <1>3, <1>4, <1>9, <2>1, <2>2, BecomeStack DEF FrameOK
    <3> QED
      BY <1>1, <1>2, <1>5, <3>1, <3>2 DEF TypeOK
  <2>5. PlaceOK(r)' /\ CurrentOK(r)'
    <3>1. \A u \in Thread : \A i \in Nat : HeldBy(r, u, i)' <=> u = t /\ i = Len(stack[t])
      BY <1>1, <1>2, <2>1, <2>2, <2>3, BecomeHeld
    <3>2. stack'[t][Len(stack[t])].at # "run"
      BY <1>1, <1>2, <2>1, BecomeFacts
    <3> QED
      BY <1>2, <1>5, <1>6, <2>3, <3>1, <3>2 DEF PlaceOK, CurrentOK, Once, Nowhere
  <2>6. ASSUME NEW d \in Corutine \ {r}
        PROVE  PlaceOK(d)' /\ CurrentOK(d)'
    BY <1>1, <1>2, <1>4, <1>5, <1>6, <2>1, BecomeOthers
  <2> QED
    BY <1>7, <2>4, <2>5, <2>6 DEF IInv, CorutineInv
<1> QED
  BY <1>8, <1>9

(* The ctx is found, or the coroutine fails where it is. *)
LEMMA DispathStep ==
  ASSUME IInv, NEW t \in Thread, DispathCoroutine(t)
  PROVE  IInv'
<1>1. TypeOK /\ CorutineInv /\ StackInv /\ LostInv
  BY DEF IInv
<1>2. /\ stack[t] # <<>> /\ Top(t).at = "dispatch" /\ ~Ghost(Top(t))
      /\ UNCHANGED <<life, queue, waiting, current, yields, begun, done, lost>>
      /\ Len(stack[t]) \in 1 .. Len(stack[t]) /\ Len(stack[t]) \in Nat
      /\ Top(t) = stack[t][Len(stack[t])] /\ Top(t) \in Frame
  BY <1>1, TopFacts DEF DispathCoroutine, Runs, Top, Ghost
<1>3. Top(t).co # None /\ Top(t).next # None
  BY <1>1, <1>2 DEF StackInv, FrameOK
<1>4. PICK r \in Corutine : r = Top(t).co
  BY <1>2, <1>3, FrameFacts
<1>5. PICK frame \in Frame :
        /\ frame.co = r /\ Become(t, frame) /\ ~Ghost(frame)
        /\ \/ frame.at = "run" /\ lastWord' = [lastWord EXCEPT ![r] = "fail"]
           \/ frame.at = "push" /\ frame.next # None /\ lastWord' = lastWord
  <2>1. CASE life[Top(t).next] = "gone"
    <3>1. /\ Running(r) \in Frame /\ Running(r).co = r /\ Running(r).at = "run"
          /\ ~Ghost(Running(r))
      BY FrameFacts DEF Running, Ghost
    <3>2. Become(t, Running(r)) /\ lastWord' = [lastWord EXCEPT ![r] = "fail"]
      BY <1>4, <2>1 DEF DispathCoroutine
    <3> QED
      BY <3>1, <3>2
  <2>2. CASE life[Top(t).next] # "gone"
    <3>1. /\ [Top(t) EXCEPT !.at = "push"].co = r
          /\ [Top(t) EXCEPT !.at = "push"].at = "push"
          /\ [Top(t) EXCEPT !.at = "push"].next = Top(t).next
          /\ [Top(t) EXCEPT !.at = "push"] \in Frame
      BY <1>2, <1>4 DEF Frame
    <3>2. Become(t, [Top(t) EXCEPT !.at = "push"]) /\ lastWord' = lastWord
      BY <2>2 DEF DispathCoroutine
    <3>3. ~Ghost([Top(t) EXCEPT !.at = "push"])
      BY <3>1 DEF Ghost
    <3> QED
      BY <1>3, <3>1, <3>2, <3>3
  <2> QED
    BY <2>1, <2>2
<1>6. /\ lastWord' \in [Corutine -> {"create", "success", "fail"}]
      /\ frame.at = "run" => lastWord'[r] = "fail"
      /\ \A d \in Corutine : lastWord'[d] = "fail" \/ lastWord'[d] = lastWord[d]
      /\ \A d \in Corutine \ {r} : lastWord'[d] = lastWord[d]
  BY <1>1, <1>5 DEF TypeOK
<1>7. /\ r \in UnderWay
      /\ \A c \in Ctx : r \notin queue[c] /\ r \notin waiting[c]
      /\ \A u \in Thread : \A i \in Nat : HeldBy(r, u, i) <=> u = t /\ i = Len(stack[t])
      /\ current[r] \in {t, None}
  BY <1>1, <1>2, <1>4, TopPlace
<1>8. \A d \in Corutine : d \in UnderWay' <=> d \in UnderWay
  BY <1>2 DEF UnderWay
<1>9. TypeOK'
  <2>1. stack' \in [Thread -> Seq(Frame)]
    BY <1>1, <1>2, <1>5, BecomeFacts DEF SameBelow
  <2> QED
    BY <1>1, <1>2, <1>6, <2>1 DEF TypeOK
<1>10. CorutineInv'
  <2>1. PlaceOK(r)' /\ CurrentOK(r)'
    <3>1. \A u \in Thread : \A i \in Nat : HeldBy(r, u, i)' <=> u = t /\ i = Len(stack[t])
      BY <1>1, <1>2, <1>5, <1>7, BecomeHeld
    <3>2. stack'[t][Len(stack[t])] = frame
      BY <1>1, <1>2, <1>5, BecomeFacts
    <3>3. ~(frame.at = "run" /\ lastWord'[r] = "success")
      BY <1>6
    <3> QED
      BY <1>2, <1>7, <1>8, <3>1, <3>2, <3>3 DEF PlaceOK, CurrentOK, Once, Nowhere
  <2>2. ASSUME NEW d \in Corutine \ {r}
        PROVE  PlaceOK(d)' /\ CurrentOK(d)'
    BY <1>1, <1>2, <1>4, <1>5, <1>6, <1>8, BecomeOthers
  <2> QED
    BY <2>1, <2>2 DEF CorutineInv
<1>11. StackInv'
  <2>1. r # None
    BY <1>3, <1>4
  <2> QED
    BY <1>1, <1>2, <1>5, <2>1, BecomeStack
<1>12. LostInv'
  BY <1>1, <1>2, <1>6, <1>7 DEF LostInv, UnderWay, TypeOK
<1> QED
  BY <1>9, <1>10, <1>11, <1>12 DEF IInv

(* From the frame into the queue of a ctx, unless that ctx has ended.      *)
LEMMA PushStep ==
  ASSUME IInv, NEW t \in Thread, PushMessage(t)
  PROVE  IInv'
<1>1. TypeOK /\ CorutineInv /\ StackInv /\ LostInv
  BY DEF IInv
<1>2. /\ stack[t] # <<>> /\ Top(t).at = "push" /\ ~Ghost(Top(t)) /\ Leave(t)
      /\ UNCHANGED <<life, waiting, current, yields, begun, done, lastWord>>
      /\ Len(stack[t]) \in 1 .. Len(stack[t]) /\ Len(stack[t]) \in Nat
      /\ Top(t) = stack[t][Len(stack[t])] /\ Top(t) \in Frame
  BY <1>1, TopFacts DEF PushMessage, Runs, Top, Ghost
<1>3. Top(t).co # None /\ Top(t).next # None
  BY <1>1, <1>2 DEF StackInv, FrameOK
<1>4. PICK r \in Corutine, c \in Ctx :
        /\ r = Top(t).co
        /\ IF life[c] = "gone"
           THEN lost' = lost \cup {r} /\ UNCHANGED queue
           ELSE queue' = [queue EXCEPT ![c] = @ \cup {r}] /\ UNCHANGED lost
  BY <1>2, <1>3, FrameFacts DEF PushMessage
<1>5. /\ r \in UnderWay
      /\ \A d \in Ctx : r \notin queue[d] /\ r \notin waiting[d]
      /\ \A u \in Thread : \A i \in Nat : HeldBy(r, u, i) <=> u = t /\ i = Len(stack[t])
  BY <1>1, <1>2, <1>4, TopPlace
<1>6. \A u \in Thread : \A i \in Nat : ~HeldBy(r, u, i)'
  BY <1>1, <1>2, <1>5, LeaveHeld
<1>7. stack' \in [Thread -> Seq(Frame)]
  BY <1>1, <1>2, LeaveFacts DEF SameBelow
<1>8. StackInv'
  BY <1>1, <1>2, LeaveStack
<1>9. CASE life[c] = "gone"
  <2>1. lost' = lost \cup {r} /\ queue' = queue
    BY <1>4, <1>9
  <2>2. TypeOK'
    BY <1>1, <1>2, <1>5, <1>7, <2>1 DEF TypeOK, UnderWay
  <2>3. r \notin UnderWay' /\ \A d \in Corutine \ {r} : d \in UnderWay' <=> d \in UnderWay
    BY <1>2, <2>1 DEF UnderWay
  <2>4. PlaceOK(r)' /\ CurrentOK(r)'
    BY <1>2, <1>5, <1>6, <2>1, <2>3, IsGone
  <2>5. ASSUME NEW d \in Corutine \ {r}
        PROVE  PlaceOK(d)' /\ CurrentOK(d)'
    BY <1>1, <1>2, <1>4, <2>1, <2>3, LeaveOthers
  <2>6. LostInv'
    BY <1>1, <1>2, <1>9, <2>1 DEF LostInv
  <2> QED
    BY <1>8, <2>2, <2>4, <2>5, <2>6 DEF IInv, CorutineInv
<1>10. CASE life[c] # "gone"
  <2>1. /\ lost' = lost /\ queue' \in [Ctx -> SUBSET Corutine]
        /\ \A d \in Ctx : r \in queue'[d] <=> d = c
        /\ \A e \in Corutine \ {r} : \A d \in Ctx : e \in queue'[d] <=> e \in queue[d]
    <3>1. lost' = lost /\ queue' = [queue EXCEPT ![c] = @ \cup {r}]
      BY <1>4, <1>10
    <3>2. queue \in [Ctx -> SUBSET Corutine]
      BY <1>1 DEF TypeOK
    <3> QED
      BY <1>5, <3>1, <3>2
  <2>2. TypeOK'
    BY <1>1, <1>2, <1>7, <2>1 DEF TypeOK
  <2>3. \A d \in Corutine : d \in UnderWay' <=> d \in UnderWay
    BY <1>2, <2>1 DEF UnderWay
  <2>4. PlaceOK(r)' /\ CurrentOK(r)'
    BY <1>2, <1>5, <1>6, <2>1, <2>3, InQueue
  <2>5. ASSUME NEW d \in Corutine \ {r}
        PROVE  PlaceOK(d)' /\ CurrentOK(d)'
    BY <1>1, <1>2, <1>4, <2>1, <2>3, LeaveOthers
  <2>6. LostInv'
    BY <1>1, <1>2, <2>1 DEF LostInv
  <2> QED
    BY <1>8, <2>2, <2>4, <2>5, <2>6 DEF IInv, CorutineInv
<1> QED
  BY <1>9, <1>10

(* A ctx takes the coroutines of its queue and of its lists with it. *)
LEMMA UnRegisterStep ==
  ASSUME IInv, NEW c \in Ctx, UnRegister(c)
  PROVE  IInv'
<1>1. TypeOK /\ CorutineInv /\ StackInv /\ LostInv /\ c \in Thread
  BY DEF IInv, Thread
<1>2. /\ stack[c] = <<>> /\ life' = [life EXCEPT ![c] = "gone"]
      /\ lost' = lost \cup queue[c] \cup waiting[c]
      /\ queue' = [queue EXCEPT ![c] = {}] /\ waiting' = [waiting EXCEPT ![c] = {}]
      /\ UNCHANGED <<stack, current, yields, begun, done, lastWord>>
  BY DEF UnRegister
<1>3. \A r \in Corutine : r \in queue[c] \/ r \in waiting[c] => r \in UnderWay
  BY <1>1, QueuePlace, ListPlace
<1>4. TypeOK'
  <2>1. queue[c] \subseteq Corutine /\ waiting[c] \subseteq Corutine
    BY <1>1 DEF TypeOK
  <2>2. lost' \subseteq begun
    BY <1>1, <1>2, <1>3, <2>1 DEF TypeOK, UnderWay
  <2> QED
    BY <1>1, <1>2, <2>2 DEF TypeOK
<1>5. \A r \in Corutine : \A u \in Thread : \A i \in Nat : HeldBy(r, u, i)' <=> HeldBy(r, u, i)
  BY <1>2 DEF HeldBy, Ghost
<1>6. CorutineInv'
  <2>1. ASSUME NEW r \in Corutine, r \in queue[c] \/ r \in waiting[c]
        PROVE  PlaceOK(r)' /\ CurrentOK(r)'
    <3>1. /\ \A d \in Ctx \ {c} : r \notin queue[d] /\ r \notin waiting[d]
          /\ \A u \in Thread : \A i \in Nat : ~HeldBy(r, u, i)
      BY <1>1, <2>1, QueuePlace, ListPlace
    <3>2. \A d \in Ctx : r \notin queue'[d] /\ r \notin waiting'[d]
      BY <1>1, <1>2, <3>1 DEF TypeOK
    <3>3. r \notin UnderWay'
      BY <1>2, <2>1 DEF UnderWay
    <3> QED
      BY <1>5, <3>1, <3>2, <3>3, IsGone
  <2>2. ASSUME NEW r \in Corutine, r \notin queue[c], r \notin waiting[c]
        PROVE  PlaceOK(r)' /\ CurrentOK(r)'
    <3>1. \A d \in Ctx : /\ r \in queue'[d] <=> r \in queue[d]
                         /\ r \in waiting'[d] <=> r \in waiting[d]
      BY <1>1, <1>2, <2>2 DEF TypeOK
    <3>2. r \in UnderWay' <=> r \in UnderWay
      BY <1>2, <2>2 DEF UnderWay
    <3>3. Untouched(r)
      BY <1>2, <1>5, <3>1, <3>2 DEF Untouched
    <3> QED
      BY <1>1, <3>3, UntouchedOK DEF CorutineInv
  <2> QED
    BY <2>1, <2>2 DEF CorutineInv
<1>7. StackInv'
  <2> SUFFICES ASSUME NEW u \in Thread, NEW i \in 1 .. Len(stack'[u])
               PROVE  FrameOK(u, i)'
    BY DEF StackInv
  <2>1. FrameOK(u, i) /\ stack'[u] = stack[u]
    BY <1>1, <1>2 DEF StackInv
  <2>2. u # c
    BY <1>2
  <2>3. u \in Ctx => waiting'[u] = waiting[u]
    BY <1>1, <1>2, <2>2 DEF TypeOK
  <2> QED
    BY <2>1, <2>3 DEF FrameOK, Ghost
<1>8. LostInv'
  BY <1>1, <1>2 DEF LostInv, TypeOK
<1> QED
  BY <1>4, <1>6, <1>7, <1>8 DEF IInv

(* A release, and what changes nothing. *)
LEMMA ReleaseStep ==
  ASSUME IInv, (\E c \in Ctx : ReleaseCtx(c)) \/ UNCHANGED vars
  PROVE  IInv'
<1>1. TypeOK /\ CorutineInv /\ StackInv /\ LostInv
  BY DEF IInv
<1>2. UNCHANGED <<queue, waiting, stack, current, yields, begun, done, lost, lastWord>>
  BY DEF ReleaseCtx, vars
<1>3. /\ life' \in [Ctx -> {"live", "released", "gone"}]
      /\ \A d \in Ctx : life[d] = "gone" => life'[d] = "gone"
  BY <1>1 DEF ReleaseCtx, vars, TypeOK
<1>4. TypeOK' /\ LostInv'
  BY <1>1, <1>2, <1>3 DEF TypeOK, LostInv
<1>5. ASSUME NEW r \in Corutine
      PROVE  PlaceOK(r)' /\ CurrentOK(r)'
  <2>1. Untouched(r)
    BY <1>2 DEF Untouched, HeldBy, Ghost, UnderWay
  <2> QED
    BY <1>1, <2>1, UntouchedOK DEF CorutineInv
<1>6. StackInv'
  BY <1>1, <1>2 DEF StackInv, FrameOK, Ghost
<1> QED
  BY <1>4, <1>5, <1>6 DEF IInv, CorutineInv

(* At first everybody is nowhere, and need not be anywhere. *)
LEMMA Initially == Init => IInv
<1> SUFFICES ASSUME Init PROVE IInv
  OBVIOUS
<1>1. /\ \A c \in Ctx : queue[c] = {} /\ waiting[c] = {}
      /\ \A t \in Thread : stack[t] = <<>> /\ Len(stack[t]) = 0
      /\ begun = {} /\ done = {} /\ lost = {}
      /\ \A r \in Corutine : lastWord[r] = "create"
  BY DEF Init
<1>2. TypeOK
  <2>1. MaxYield \in Nat
    BY CoroutineAssumption
  <2>2. stack \in [Thread -> Seq(Frame)]
    BY DEF Init
  <2> QED
    BY <2>1, <2>2 DEF Init, TypeOK
<1>3. \A r \in Corutine : \A t \in Thread : \A i \in Nat : ~HeldBy(r, t, i)
  BY <1>1 DEF HeldBy
<1>4. CorutineInv
  BY <1>1, <1>3 DEF CorutineInv, PlaceOK, CurrentOK, Once, Nowhere, UnderWay
<1>5. StackInv /\ LostInv
  BY <1>1 DEF StackInv, LostInv
<1> QED
  BY <1>2, <1>4, <1>5 DEF IInv

(* Every reachable state satisfies the invariant. *)
THEOREM Invariance == Spec => []IInv
<1>1. IInv /\ [Next]_vars => IInv'
  <2> SUFFICES ASSUME IInv, [Next]_vars PROVE IInv'
    OBVIOUS
  <2>1. CASE UNCHANGED vars
    BY <2>1, ReleaseStep
  <2>2. ASSUME NEW t \in Thread, ThreadStep(t)
        PROVE  IInv'
    <3>1. CASE FinishFunc(t)
      BY <3>1, FinishStep
    <3>2. CASE ResumeReturns(t)
      BY <3>2, ReturnStep
    <3>3. CASE DispathCoroutine(t)
      BY <3>3, DispathStep
    <3>4. CASE PushMessage(t)
      BY <3>4, PushStep
    <3>5. ASSUME NEW c \in Ctx, YieldCoroutine(t, c)
          PROVE  IInv'
      BY <3>5, YieldStep
    <3>6. CASE t \in Ctx /\ OtherEnds(t)
      BY <3>6, OtherStep
    <3>7. CASE t \in Ctx /\ YieldToNobody(t)
      BY <3>7, YieldToNobodyStep
    <3> QED
      BY <2>2, <3>1, <3>2, <3>3, <3>4, <3>5, <3>6, <3>7 DEF ThreadStep
  <2>3. ASSUME NEW t \in Thread, NEW r \in Corutine, CreateCoroutine(t, r)
        PROVE  IInv'
    BY <2>3, CreateStep
  <2>4. ASSUME NEW c \in Ctx, Dispatches(c)
        PROVE  IInv'
    BY <2>4, DispatchMsgStep, UnRegisterStep DEF Dispatches
  <2>5. ASSUME NEW c \in Ctx, DispatchOther(c)
        PROVE  IInv'
    BY <2>5, OtherStep
  <2>6. ASSUME NEW c \in Ctx, Resumes(c)
        PROVE  IInv'
    BY <2>6, ResumeStep DEF Resumes
  <2>7. ASSUME NEW c \in Ctx, ReleaseCtx(c)
        PROVE  IInv'
    BY <2>7, ReleaseStep
  <2> QED
    BY <2>1, <2>2, <2>3, <2>4, <2>5, <2>6, <2>7 DEF Next
<1> QED
  BY Initially, <1>1, PTL DEF Spec

(* What the variables of the coroutine layer hold. *)
THEOREM TypeCorrect == Spec => []TypeOK
<1>1. IInv => TypeOK
  BY DEF IInv
<1> QED
  BY <1>1, Invariance, PTL

(* A set with the members x alone has one member. *)
LEMMA OneMember ==
  ASSUME NEW S, NEW x, \A y : y \in S <=> y = x
  PROVE  Cardinality(S) = 1
<1>1. S = {x}
  OBVIOUS
<1> QED
  BY <1>1, FS_Singleton

(* And one without members none. *)
LEMMA NoMember ==
  ASSUME NEW S, \A y : y \notin S
  PROVE  Cardinality(S) = 0
<1>1. S = {}
  OBVIOUS
<1> QED
  BY <1>1, FS_EmptySet

(* The frames in which r is held are those that HeldBy names. *)
LEMMA SlotFacts ==
  ASSUME TypeOK, NEW r \in Corutine
  PROVE  /\ \A t \in Thread : \A i \in Nat :
              HeldBy(r, t, i) =>
                <<t, i>> \in {f \in UNION {Slots(u) : u \in Thread} : Held(r, f)}
         /\ \A f \in {f \in UNION {Slots(u) : u \in Thread} : Held(r, f)} :
              \E t \in Thread : \E i \in Nat : f = <<t, i>> /\ HeldBy(r, t, i)
<1>1. \A t \in Thread : Len(stack[t]) \in Nat /\ DOMAIN stack[t] = 1 .. Len(stack[t])
  BY DEF TypeOK
<1>2. ASSUME NEW t \in Thread, NEW i \in Nat, HeldBy(r, t, i)
      PROVE  <<t, i>> \in {f \in UNION {Slots(u) : u \in Thread} : Held(r, f)}
  <2>1. <<t, i>> \in Slots(t)
    BY <1>1, <1>2 DEF Slots, HeldBy
  <2>2. Held(r, <<t, i>>)
    BY <1>2 DEF Held, HeldBy, Ghost
  <2> QED
    BY <2>1, <2>2
<1>3. ASSUME NEW f \in UNION {Slots(u) : u \in Thread}, Held(r, f)
      PROVE  \E t \in Thread : \E i \in Nat : f = <<t, i>> /\ HeldBy(r, t, i)
  <2>1. PICK t \in Thread : f \in Slots(t)
    OBVIOUS
  <2>2. PICK i \in 1 .. Len(stack[t]) : f = <<t, i>>
    BY <1>1, <2>1 DEF Slots
  <2>3. HeldBy(r, t, i)
    BY <1>3, <2>2 DEF Held, HeldBy, Ghost
  <2> QED
    BY <1>1, <2>2, <2>3
<1> QED
  BY <1>2, <1>3

(* A coroutine that is under way is in one place, and any other is in      *)
(* none.                                                                   *)
LEMMA PlacesCounted ==
  ASSUME TypeOK, NEW r \in Corutine, PlaceOK(r)
  PROVE  Places(r) = IF r \in UnderWay THEN 1 ELSE 0
<1> DEFINE Q == {c \in Ctx : r \in queue[c]}
           W == {c \in Ctx : r \in waiting[c]}
           F == {f \in UNION {Slots(t) : t \in Thread} : Held(r, f)}
<1>1. Places(r) = Cardinality(Q) + Cardinality(W) + Cardinality(F)
  BY DEF Places
<1>2. /\ \A t \in Thread : \A i \in Nat : HeldBy(r, t, i) => <<t, i>> \in F
      /\ \A f \in F : \E t \in Thread : \E i \in Nat : f = <<t, i>> /\ HeldBy(r, t, i)
  BY SlotFacts
<1>3. \A c : c \in Q <=> c \in Ctx /\ r \in queue[c]
  OBVIOUS
<1>4. \A c : c \in W <=> c \in Ctx /\ r \in waiting[c]
  OBVIOUS
<1> HIDE DEF Q, W, F
<1>5. CASE Nowhere(r)
  <2>1. Cardinality(Q) = 0
    BY <1>3, <1>5, NoMember DEF Nowhere
  <2>2. Cardinality(W) = 0
    BY <1>4, <1>5, NoMember DEF Nowhere
  <2>3. Cardinality(F) = 0
    BY <1>2, <1>5, NoMember DEF Nowhere
  <2> QED
    BY <1>1, <1>5, <2>1, <2>2, <2>3 DEF PlaceOK
<1>6. ASSUME NEW c \in Ctx, r \in queue[c]
      PROVE  Places(r) = 1
  <2>1. Cardinality(Q) = 1
    <3>1. \A d : d \in Q <=> d = c
      BY <1>3, <1>6 DEF PlaceOK, Once
    <3> QED
      BY <3>1, OneMember
  <2>2. Cardinality(W) = 0
    BY <1>4, <1>6, NoMember DEF PlaceOK, Once
  <2>3. Cardinality(F) = 0
    BY <1>2, <1>6, NoMember DEF PlaceOK, Once
  <2> QED
    BY <1>1, <2>1, <2>2, <2>3
<1>7. ASSUME NEW c \in Ctx, r \in waiting[c]
      PROVE  Places(r) = 1
  <2>1. Cardinality(W) = 1
    <3>1. \A d : d \in W <=> d = c
      BY <1>4, <1>7 DEF PlaceOK, Once
    <3> QED
      BY <3>1, OneMember
  <2>2. Cardinality(Q) = 0
    BY <1>3, <1>7, NoMember DEF PlaceOK, Once
  <2>3. Cardinality(F) = 0
    BY <1>2, <1>7, NoMember DEF PlaceOK, Once
  <2> QED
    BY <1>1, <2>1, <2>2, <2>3
<1>8. ASSUME NEW t \in Thread, NEW i \in Nat, HeldBy(r, t, i)
      PROVE  Places(r) = 1
  <2>1. Cardinality(F) = 1
    <3>1. <<t, i>> \in F
      BY <1>2, <1>8
    <3>2. \A f \in F : f = <<t, i>>
      <4> SUFFICES ASSUME NEW f \in F PROVE f = <<t, i>>
        OBVIOUS
      <4>1. PICK u \in Thread, j \in Nat : f = <<u, j>> /\ HeldBy(r, u, j)
        BY <1>2
      <4> QED
        BY <1>8, <4>1 DEF PlaceOK, Once
    <3>3. PICK g : g = <<t, i>>
      OBVIOUS
    <3>4. \A f : f \in F <=> f = g
      BY <3>1, <3>2, <3>3
    <3> QED
      BY <3>4, OneMember
  <2>2. Cardinality(Q) = 0
    BY <1>3, <1>8, NoMember DEF PlaceOK, Once
  <2>3. Cardinality(W) = 0
    BY <1>4, <1>8, NoMember DEF PlaceOK, Once
  <2> QED
    BY <1>1, <2>1, <2>2, <2>3
<1>9. CASE ~Nowhere(r)
  <2>1. r \in UnderWay
    BY <1>9 DEF PlaceOK
  <2>2. Places(r) = 1
    BY <1>6, <1>7, <1>8, <1>9 DEF Nowhere
  <2> QED
    BY <2>1, <2>2
<1> QED
  BY <1>5, <1>9

(* A coroutine that has begun and not ended, and that was not lost, is in  *)
(* one queue, one list or one frame, so that somebody will resume it, and  *)
(* nobody twice; who was lost had yielded after a failure, or a ctx ended  *)
(* (Ctx_ExeCoroutine and those around it).                                 *)
THEOREM CorutineInOnePlace == Spec => []InOnePlace
<1>1. IInv => InOnePlace
  <2> SUFFICES ASSUME IInv, NEW r \in Corutine
               PROVE  /\ Places(r) = IF r \in begun \ (done \cup lost) THEN 1 ELSE 0
                      /\ r \in lost => lastWord[r] = "fail" \/ \E c \in Ctx : life[c] = "gone"
    BY DEF InOnePlace
  <2>1. Places(r) = IF r \in UnderWay THEN 1 ELSE 0
    BY PlacesCounted DEF IInv, CorutineInv
  <2> QED
    BY <2>1 DEF IInv, LostInv, UnderWay
<1> QED
  BY <1>1, Invariance, PTL

(* After a yield that succeeded GetCurrentCtx() is the ctx in whose        *)
(* handler the coroutine runs, and at no time one that it has left.        *)
THEOREM RunsInCurrentCtx == Spec => []InCurrentCtx
<1>1. IInv => InCurrentCtx
  <2> SUFFICES ASSUME IInv, NEW t \in Thread, NEW i \in DOMAIN stack[t],
                      stack[t][i].co # None, stack[t][i].at = "run"
               PROVE  \/ current[stack[t][i].co] = t
                      \/ /\ current[stack[t][i].co] = None
                         /\ lastWord[stack[t][i].co] # "success"
    BY DEF InCurrentCtx
  <2>1. TypeOK /\ CorutineInv /\ i \in 1 .. Len(stack[t]) /\ i \in Nat
    BY TopFacts DEF IInv
  <2>2. PICK r \in Corutine : r = stack[t][i].co
    BY <2>1, TopFacts, FrameFacts
  <2>3. HeldBy(r, t, i) /\ CurrentOK(r)
    BY <2>1, <2>2 DEF HeldBy, Ghost, CorutineInv
  <2> QED
    BY <2>1, <2>2, <2>3 DEF CurrentOK
<1> QED
  BY <1>1, Invariance, PTL

-----------------------------------------------------------------------------
(***************************************************************************)
(* Sequences.                                                              *)
(***************************************************************************)
(* One sequence after the other. *)
LEMMA ConcatFacts ==
  ASSUME NEW S, NEW s \in Seq(S), NEW t \in Seq(S)
  PROVE  /\ s \o t \in Seq(S) /\ Len(s \o t) = Len(s) + Len(t)
         /\ \A k \in 1 .. Len(s) : (s \o t)[k] = s[k]
         /\ \A k \in 1 .. Len(t) : (s \o t)[Len(s) + k] = t[k]
OBVIOUS

(* What is left of a sequence without its first n members. *)
LEMMA RestFacts ==
  ASSUME NEW S, NEW s \in Seq(S), NEW n \in 0 .. Len(s)
  PROVE  /\ SubSeq(s, n + 1, Len(s)) \in Seq(S)
         /\ Len(SubSeq(s, n + 1, Len(s))) = Len(s) - n
         /\ \A k \in 1 .. Len(s) - n : SubSeq(s, n + 1, Len(s))[k] = s[n + k]
OBVIOUS

(* The first n members, and a part in the middle. *)
LEMMA PartFacts ==
  ASSUME NEW S, NEW s \in Seq(S), NEW m \in 0 .. Len(s), NEW n \in m .. Len(s)
  PROVE  /\ SubSeq(s, m + 1, n) \in Seq(S)
         /\ Len(SubSeq(s, m + 1, n)) = n - m
         /\ \A k \in 1 .. n - m : SubSeq(s, m + 1, n)[k] = s[m + k]
OBVIOUS

(* What is left of a sequence with another behind it. *)
LEMMA RestOfConcat ==
  ASSUME NEW S, NEW s \in Seq(S), NEW t \in Seq(S), NEW n \in 0 .. Len(s)
  PROVE  /\ Len(SubSeq(s, n + 1, Len(s)) \o t) = Len(s \o t) - n
         /\ \A k \in 1 .. Len(s \o t) - n :
              (SubSeq(s, n + 1, Len(s)) \o t)[k] = (s \o t)[n + k]
<1>1. PICK u \in Seq(S) : u = SubSeq(s, n + 1, Len(s))
  BY RestFacts
<1>2. Len(u) = Len(s) - n /\ \A k \in 1 .. Len(s) - n : u[k] = s[n + k]
  BY <1>1, RestFacts
<1>3. /\ Len(u \o t) = Len(u) + Len(t) /\ Len(s \o t) = Len(s) + Len(t)
      /\ Len(s) \in Nat /\ Len(t) \in Nat /\ Len(u) \in Nat
  BY ConcatFacts
<1>4. \A k \in 1 .. Len(u) : (u \o t)[k] = (s \o t)[n + k]
  <2> SUFFICES ASSUME NEW k \in 1 .. Len(u) PROVE (u \o t)[k] = (s \o t)[n + k]
    OBVIOUS
  <2>1. n + k \in 1 .. Len(s)
    BY <1>2, <1>3
  <2> QED
    BY <1>2, <2>1, ConcatFacts
<1>6. \A j \in 1 .. Len(t) : (u \o t)[Len(u) + j] = (s \o t)[n + (Len(u) + j)]
  <2> SUFFICES ASSUME NEW j \in 1 .. Len(t)
               PROVE  (u \o t)[Len(u) + j] = (s \o t)[n + (Len(u) + j)]
    OBVIOUS
  <2>1. n + (Len(u) + j) = Len(s) + j
    BY <1>2, <1>3
  <2>2. (u \o t)[Len(u) + j] = t[j] /\ (s \o t)[Len(s) + j] = t[j]
    BY ConcatFacts
  <2> QED
    BY <2>1, <2>2
<1>7. ASSUME NEW k \in 1 .. Len(s \o t) - n
      PROVE  (u \o t)[k] = (s \o t)[n + k]
  <2>1. \/ k \in 1 .. Len(u)
        \/ k - Len(u) \in 1 .. Len(t) /\ k = Len(u) + (k - Len(u))
    <3>1. Len(s \o t) - n = Len(u) + Len(t)
      BY <1>2, <1>3
    <3>2. k \in 1 .. Len(u) + Len(t)
      BY <3>1
    <3> QED
      BY <1>3, <3>2
  <2> QED
    BY <1>4, <1>6, <2>1
<1>5. Len(u \o t) = Len(s \o t) - n
  BY <1>2, <1>3
<1> QED
  BY <1>1, <1>5, <1>7

(* A sequence behind another may be taken over by and by. *)
LEMMA TakeOver ==
  ASSUME NEW S, NEW s \in Seq(S), NEW t \in Seq(S), NEW n \in 0 .. Len(t)
  PROVE  (s \o SubSeq(t, 1, n)) \o SubSeq(t, n + 1, Len(t)) = s \o t
<1> DEFINE v == SubSeq(t, 1, n)
           w == SubSeq(t, n + 1, Len(t))
<1>1. v \in Seq(S) /\ w \in Seq(S)
  <2>1. 0 \in 0 .. Len(t) /\ n \in 0 .. Len(t) /\ 0 + 1 = 1
    OBVIOUS
  <2> QED
    BY <2>1, PartFacts, RestFacts
<1>2. v \o w = t
  <2>1. 1 \in 1 .. Len(t) + 1 /\ n \in 1 - 1 .. Len(t) /\ Len(t) \in n .. Len(t)
    OBVIOUS
  <2>2. v \o w = SubSeq(t, 1, Len(t))
    BY <2>1, ConcatAdjacentSubSeq
  <2> QED
    BY <2>2, SubSeqFull
<1> HIDE DEF v, w
<1>3. (s \o v) \o w = s \o (v \o w)
  BY <1>1, ConcatAssociative
<1> QED
  BY <1>2, <1>3 DEF v, w

(***************************************************************************)
(* Bytes and packets.                                                      *)
(***************************************************************************)
(* The bytes s are the packets after the r-th of n: the k-th of them is    *)
(* after start[k], has size[k] bytes, and b[k] are its bytes.              *)
Starts(start, s, len, r, size, n, b) ==
  /\ start \in [r + 1 .. n + 1 -> Nat]
  /\ start[r + 1] = 0 /\ start[n + 1] = len
  /\ \A k \in r + 1 .. n :
       /\ start[k + 1] = start[k] + size[k]
       /\ \A j \in k + 1 .. n + 1 : start[k] + size[k] <= start[j]
       /\ \A i \in 1 .. size[k] : s[start[k] + i] = b[k][i]

Cut(s, len, r, size, n, b) == \E start : Starts(start, s, len, r, size, n, b)

(* When nothing was sent, nothing is there. *)
LEMMA CutNothing ==
  ASSUME NEW s, NEW size, NEW b
  PROVE  Cut(s, 0, 0, size, 0, b)
<1>1. Starts([k \in {1} |-> 0], s, 0, 0, size, 0, b)
  BY DEF Starts
<1> QED
  BY <1>1 DEF Cut

(* When all was delivered, nothing is left. *)
LEMMA CutEnd ==
  ASSUME NEW s, NEW len, NEW n, NEW size, NEW b, Cut(s, len, n, size, n, b)
  PROVE  len = 0
BY DEF Cut, Starts

(* Only the bytes count. *)
LEMMA CutSame ==
  ASSUME NEW s, NEW len \in Nat, NEW n \in Nat, NEW r \in 0 .. n, NEW size, NEW b,
         \A k \in r + 1 .. n : size[k] \in Nat,
         Cut(s, len, r, size, n, b), NEW s2, \A i \in 1 .. len : s2[i] = s[i]
  PROVE  Cut(s2, len, r, size, n, b)
<1>1. PICK start : Starts(start, s, len, r, size, n, b)
  BY DEF Cut
<1>2. ASSUME NEW k \in r + 1 .. n, NEW i \in 1 .. size[k]
      PROVE  s2[start[k] + i] = b[k][i]
  <2>1. k \in r + 1 .. n + 1 /\ n + 1 \in k + 1 .. n + 1
    OBVIOUS
  <2>2. start[k] + size[k] <= len /\ start[k] \in Nat /\ s[start[k] + i] = b[k][i]
    BY <1>1, <2>1 DEF Starts
  <2>3. start[k] + i \in 1 .. len
    BY <2>2
  <2> QED
    BY <2>2, <2>3
<1>3. Starts(start, s2, len, r, size, n, b)
  BY <1>1, <1>2 DEF Starts
<1> QED
  BY <1>3 DEF Cut

(* What is sent is put behind. *)
LEMMA CutAppend ==
  ASSUME NEW s, NEW len \in Nat, NEW n \in Nat, NEW r \in 0 .. n, NEW size, NEW b,
         \A k \in r + 1 .. n : size[k] \in Nat,
         Cut(s, len, r, size, n, b),
         NEW s2, NEW size2, NEW last \in Nat, size2[n + 1] = last,
         \A k \in r + 1 .. n : size2[k] = size[k],
         \A i \in 1 .. len : s2[i] = s[i],
         \A i \in 1 .. last : s2[len + i] = b[n + 1][i]
  PROVE  Cut(s2, len + last, r, size2, n + 1, b)
<1>1. PICK start : Starts(start, s, len, r, size, n, b)
  BY DEF Cut
<1> DEFINE next == [k \in r + 1 .. n + 2 |-> IF k = n + 2 THEN len + last ELSE start[k]]
<1>2. /\ start \in [r + 1 .. n + 1 -> Nat]
      /\ start[r + 1] = 0 /\ start[n + 1] = len
  BY <1>1 DEF Starts
<1>3. /\ next \in [r + 1 .. n + 2 -> Nat]
      /\ next[r + 1] = 0 /\ next[n + 2] = len + last /\ next[n + 1] = len
      /\ \A k \in r + 1 .. n + 1 : next[k] = start[k]
  BY <1>2
<1> HIDE DEF next
<1>4. ASSUME NEW k \in r + 1 .. n
      PROVE  /\ next[k + 1] = next[k] + size2[k]
             /\ \A j \in k + 1 .. n + 2 : next[k] + size2[k] <= next[j]
             /\ \A i \in 1 .. size2[k] : s2[next[k] + i] = b[k][i]
  <2>1. /\ start[k + 1] = start[k] + size[k]
        /\ \A j \in k + 1 .. n + 1 : start[k] + size[k] <= start[j]
        /\ \A i \in 1 .. size[k] : s[start[k] + i] = b[k][i]
    BY <1>1 DEF Starts
  <2>2. /\ k \in r + 1 .. n + 1 /\ k + 1 \in r + 1 .. n + 1 /\ n + 1 \in k + 1 .. n + 1
    OBVIOUS
  <2>3. /\ next[k] = start[k] /\ next[k + 1] = start[k + 1]
        /\ start[k] \in Nat /\ size[k] \in Nat /\ size2[k] = size[k]
    BY <1>2, <1>3, <2>2
  <2>4. start[k] + size[k] <= len
    BY <1>2, <2>1, <2>2
  <2>5. ASSUME NEW j \in k + 1 .. n + 2
        PROVE  next[k] + size2[k] <= next[j]
    <3>1. CASE j = n + 2
      BY <1>3, <2>3, <2>4, <3>1
    <3>2. CASE j # n + 2
      <4>1. j \in k + 1 .. n + 1 /\ j \in r + 1 .. n + 1
        BY <3>2
      <4>2. start[k] + size[k] <= start[j] /\ next[j] = start[j]
        BY <1>3, <2>1, <4>1
      <4> QED
        BY <2>3, <4>2
    <3> QED
      BY <3>1, <3>2
  <2>6. ASSUME NEW i \in 1 .. size2[k]
        PROVE  s2[next[k] + i] = b[k][i]
    <3>1. start[k] + i \in 1 .. len /\ i \in 1 .. size[k]
      BY <2>3, <2>4
    <3> QED
      BY <2>1, <2>3, <3>1
  <2> QED
    BY <2>1, <2>3, <2>5, <2>6
<1>5. /\ next[n + 2] = next[n + 1] + size2[n + 1]
      /\ \A i \in 1 .. size2[n + 1] : s2[next[n + 1] + i] = b[n + 1][i]
  BY <1>3
<1>6. ASSUME NEW k \in r + 1 .. n + 1
      PROVE  /\ next[k + 1] = next[k] + size2[k]
             /\ \A j \in k + 1 .. n + 1 + 1 : next[k] + size2[k] <= next[j]
             /\ \A i \in 1 .. size2[k] : s2[next[k] + i] = b[k][i]
  <2>1. CASE k = n + 1
    <3>1. /\ k + 1 = n + 2
          /\ \A j \in k + 1 .. n + 1 + 1 : j = n + 2
      BY <2>1
    <3>2. next[n + 2] = next[n + 1] + size2[n + 1] /\ next[n + 2] <= next[n + 2]
      BY <1>3, <1>5
    <3> QED
      BY <1>5, <2>1, <3>1, <3>2
  <2>2. CASE k # n + 1
    <3>1. k \in r + 1 .. n /\ n + 1 + 1 = n + 2
      BY <2>2
    <3> QED
      BY <1>4, <3>1
  <2> QED
    BY <2>1, <2>2
<1>7. Starts(next, s2, len + last, r, size2, n + 1, b)
  <2>1. n + 1 + 1 = n + 2
    OBVIOUS
  <2> QED
    BY <1>3, <1>6, <2>1 DEF Starts
<1> QED
  BY <1>7 DEF Cut

(* The bytes after the first. *)
From(s, first, len) == [i \in 1 .. len - first |-> s[first + i]]

(* The first packet is in front, and the others after it. *)
LEMMA CutFirst ==
  ASSUME NEW s, NEW len \in Nat, NEW n \in Nat, NEW r \in 0 .. n - 1, NEW size, NEW b,
         \A k \in r + 1 .. n : size[k] \in Nat,
         Cut(s, len, r, size, n, b), NEW first, first = size[r + 1]
  PROVE  /\ first <= len
         /\ \A i \in 1 .. first : s[i] = b[r + 1][i]
         /\ Cut(From(s, first, len), len - first, r + 1, size, n, b)
<1>1. PICK start : Starts(start, s, len, r, size, n, b)
  BY DEF Cut
<1> DEFINE next == [k \in r + 2 .. n + 1 |-> start[k] - first]
<1>2. /\ start \in [r + 1 .. n + 1 -> Nat]
      /\ start[r + 1] = 0 /\ start[n + 1] = len
      /\ r + 1 \in r + 1 .. n /\ r + 1 + 1 = r + 2 /\ first \in Nat
  BY <1>1 DEF Starts
<1>3. /\ start[r + 2] = first
      /\ \A j \in r + 2 .. n + 1 : first <= start[j]
      /\ \A i \in 1 .. first : s[i] = b[r + 1][i]
  <2>1. /\ start[r + 1 + 1] = start[r + 1] + size[r + 1]
        /\ \A j \in r + 1 + 1 .. n + 1 : start[r + 1] + size[r + 1] <= start[j]
        /\ \A i \in 1 .. size[r + 1] : s[start[r + 1] + i] = b[r + 1][i]
    BY <1>1, <1>2 DEF Starts
  <2>2. start[r + 1] + size[r + 1] = first /\ \A i \in 1 .. first : start[r + 1] + i = i
    BY <1>2
  <2> QED
    BY <1>2, <2>1, <2>2
<1>4. first <= len
  BY <1>2, <1>3
<1>5. /\ next \in [r + 2 .. n + 1 -> Nat]
      /\ \A k \in r + 2 .. n + 1 : next[k] = start[k] - first
      /\ next[r + 2] = 0 /\ next[n + 1] = len - first
  BY <1>2, <1>3
<1> HIDE DEF next
<1>6. Cut(From(s, first, len), len - first, r + 1, size, n, b)
  <2> DEFINE s2 == From(s, first, len)
  <2>3. \A i \in 1 .. len - first : s2[i] = s[first + i]
    BY DEF From
  <2> HIDE DEF s2
  <2>1. ASSUME NEW k \in r + 2 .. n
        PROVE  /\ next[k + 1] = next[k] + size[k]
               /\ \A j \in k + 1 .. n + 1 : next[k] + size[k] <= next[j]
               /\ \A i \in 1 .. size[k] : s2[next[k] + i] = b[k][i]
    <3>1. /\ k \in r + 1 .. n /\ k \in r + 2 .. n + 1 /\ k + 1 \in r + 2 .. n + 1
          /\ k \in r + 1 .. n + 1 /\ k + 1 \in r + 1 .. n + 1 /\ n + 1 \in k + 1 .. n + 1
      OBVIOUS
    <3>2. /\ start[k + 1] = start[k] + size[k]
          /\ \A j \in k + 1 .. n + 1 : start[k] + size[k] <= start[j]
          /\ \A i \in 1 .. size[k] : s[start[k] + i] = b[k][i]
      BY <1>1, <3>1 DEF Starts
    <3>3. start[k] \in Nat /\ size[k] \in Nat /\ first <= start[k] /\ start[k + 1] \in Nat
      BY <1>2, <1>3, <3>1
    <3>4. start[k] + size[k] <= len
      BY <1>2, <3>1, <3>2
    <3>5. next[k] = start[k] - first /\ next[k + 1] = start[k + 1] - first
      BY <1>5, <3>1
    <3>6. ASSUME NEW j \in k + 1 .. n + 1
          PROVE  next[k] + size[k] <= next[j]
      <4>1. j \in r + 1 .. n + 1 /\ j \in r + 2 .. n + 1
        OBVIOUS
      <4>2. next[j] = start[j] - first /\ start[j] \in Nat
        BY <1>2, <1>5, <4>1
      <4>3. start[k] + size[k] <= start[j]
        BY <3>2
      <4>4. first \in Nat
        BY <1>2
      <4> QED
        BY <3>3, <3>5, <4>2, <4>3, <4>4
    <3>7. ASSUME NEW i \in 1 .. size[k]
          PROVE  s2[next[k] + i] = b[k][i]
      <4> first \in Nat
        BY <1>2
      <4>1. next[k] + i \in 1 .. len - first /\ first + (next[k] + i) = start[k] + i
        BY <3>3, <3>4, <3>5
      <4>2. s2[next[k] + i] = s[first + (next[k] + i)]
        BY <2>3, <4>1
      <4> QED
        BY <3>2, <4>1, <4>2
    <3>8. next[k + 1] = next[k] + size[k]
      <4> first \in Nat /\ start[k + 1] = start[k] + size[k]
        BY <1>2, <3>2
      <4> QED
        BY <3>3, <3>5
    <3> QED
      BY <3>6, <3>7, <3>8
  <2>2. Starts(next, s2, len - first, r + 1, size, n, b)
    BY <1>2, <1>5, <2>1 DEF Starts
  <2> QED
    BY <2>2 DEF Cut, s2
<1> QED
  BY <1>3, <1>4, <1>6

(***************************************************************************)
(* The invariant.                                                          *)
(***************************************************************************)
(* The sizes of packets, and the bytes of those that are sent on c. *)
Sizes(sent) == [k \in 1 .. Len(sent) |-> HeadSize + sent[k]]
SentOn(c) == [k \in Nat |-> [i \in Nat |-> <<c, k, i>>]]

(* The bytes s are the packets that were not delivered. *)
Undelivered(s) ==
  Cut(s, Len(s), Len(received), Sizes(packetsSent), Len(packetsSent), SentOn(conn))

NextLength == packetsSent[Len(received) + 1]
AllDelivered == Len(received) = Len(packetsSent)

(* A length that was read is that of the next packet, and when the filter  *)
(* waits the next packet has not arrived.                                  *)
UpInv ==
  /\ Undelivered(m_data \o wire)
  /\ m_nPacketLength # 0 => ~AllDelivered /\ m_nPacketLength = NextLength
  /\ ~more /\ ~AllDelivered => Len(m_data) < HeadSize + NextLength

SyncInv == InOrder /\ (session = "up" => UpInv)

(* A byte is of a packet that was sent. *)
OfPackets(s) == \A i \in 1 .. Len(s) : s[i][2] \in 1 .. Len(packetsSent)

(* Between two connections nothing is on its way. *)
DownInv ==
  /\ session # "up" => ~more
  /\ session = "down" => wire = <<>>

FilterInv == FilterTypeOK /\ OfPackets(m_data) /\ OfPackets(wire) /\ DownInv /\ (stale \/ SyncInv)

(* What is known of lengths. *)
LEMMA LengthFacts ==
  ASSUME FilterTypeOK
  PROVE  /\ packetsSent \in Seq(Nat) /\ Len(packetsSent) \in Nat /\ Len(received) \in Nat
         /\ \A k \in 1 .. Len(packetsSent) :
              /\ packetsSent[k] \in Nat
              /\ Sizes(packetsSent)[k] = HeadSize + packetsSent[k]
              /\ Sizes(packetsSent)[k] \in Nat
         /\ HeadSize = 4 /\ m_data \in Seq(Byte) /\ wire \in Seq(Byte)
<1>1. packetsSent \in Seq(Length) /\ Length \subseteq Nat
  BY FilterAssumption DEF FilterTypeOK
<1>2. packetsSent \in Seq(Nat)
  BY <1>1, SeqMonotonic
<1>3. received \in Seq(Seq(Byte)) /\ m_data \in Seq(Byte) /\ wire \in Seq(Byte)
  BY DEF FilterTypeOK
<1>4. \A k \in 1 .. Len(packetsSent) : Sizes(packetsSent)[k] = HeadSize + packetsSent[k]
  BY DEF Sizes
<1>5. HeadSize = 4 /\ \A k \in 1 .. Len(packetsSent) : packetsSent[k] \in Nat
  BY <1>2 DEF HeadSize
<1>6. \A k \in 1 .. Len(packetsSent) : Sizes(packetsSent)[k] \in Nat
  BY <1>4, <1>5
<1>7. Len(packetsSent) \in Nat /\ Len(received) \in Nat
  BY <1>2, <1>3
<1> QED
  BY <1>2, <1>3, <1>4, <1>5, <1>6, <1>7

(* The i-th byte of the k-th packet. *)
LEMMA SentFacts ==
  ASSUME NEW c, NEW k \in Nat, NEW i \in Nat
  PROVE  SentOn(c)[k][i] = <<c, k, i>>
BY DEF SentOn

(***************************************************************************)
(* The filter.                                                             *)
(***************************************************************************)
(* A length that is read is a number. *)
LEMMA LengthType ==
  ASSUME FilterTypeOK, NEW data \in Seq(Byte), OfPackets(data), Len(data) >= HeadSize,
         NEW length \in PacketLength(data)
  PROVE  length \in Nat
<1>1. data[1][2] \in 1 .. Len(packetsSent)
  BY DEF OfPackets, HeadSize
<1>2. packetsSent[data[1][2]] \in Nat
  BY <1>1, LengthFacts
<1>3. MaxLength \in Nat /\ m_nPacketLength \in Nat
  BY FilterAssumption DEF FilterTypeOK
<1>4. length \in UnSerialize(data) \/ length = m_nPacketLength
  BY DEF PacketLength
<1>5. length \in UnSerialize(data) => length = packetsSent[data[1][2]] \/ length \in 0 .. MaxLength + 1
  BY DEF UnSerialize
<1> QED
  BY <1>2, <1>3, <1>4, <1>5

(* The filter keeps the types, and makes no bytes. *)
LEMMA FilterType ==
  ASSUME FilterTypeOK, session = "up", NEW data \in Seq(Byte), OfPackets(data),
         Filter(data)
  PROVE  /\ session' \in {"up", "failed"} /\ more' \in BOOLEAN
         /\ session' # "up" => ~more'
         /\ m_data' \in Seq(Byte) /\ m_nPacketLength' \in Nat /\ received' \in Seq(Seq(Byte))
         /\ \A i \in 1 .. Len(m_data') : m_data'[i][2] \in 1 .. Len(packetsSent)
<1>1. /\ m_nPacketLength \in Nat /\ received \in Seq(Seq(Byte)) /\ HeadSize = 4
      /\ Len(data) \in Nat
  BY DEF FilterTypeOK, HeadSize
<1>2. CASE HeaderNoEnough(data)
  <2>1. m_nPacketLength' \in Nat
    BY <1>1, <1>2, LengthType DEF HeaderNoEnough
  <2> QED
    BY <1>1, <1>2, <2>1 DEF HeaderNoEnough, OfPackets
<1>3. CASE HeaderNotAllowed(data)
  <2>1. m_nPacketLength' \in Nat
    BY <1>1, <1>3, LengthType DEF HeaderNotAllowed
  <2> QED
    BY <1>1, <1>3, <2>1 DEF HeaderNotAllowed, OfPackets
<1>4. CASE HeaderFind(data)
  <2>1. PICK length \in PacketLength(data) :
          /\ Len(data) >= HeadSize + length /\ Len(data) >= HeadSize
          /\ received' = Append(received, SubSeq(data, HeadSize + 1, HeadSize + length))
          /\ ResetHeader(data, length)
          /\ more' = TRUE /\ UNCHANGED session
    BY <1>4 DEF HeaderFind
  <2>2. PICK n \in Nat : n = HeadSize + length /\ length \in Nat
    BY <1>1, <2>1, LengthType
  <2>3. n \in 0 .. Len(data) /\ HeadSize \in 0 .. Len(data) /\ n \in HeadSize .. Len(data)
    BY <1>1, <2>1, <2>2
  <2>4. received' \in Seq(Seq(Byte))
    <3>1. SubSeq(data, HeadSize + 1, n) \in Seq(Byte)
      BY <2>3, PartFacts
    <3> QED
      BY <1>1, <2>1, <2>2, <3>1, AppendProperties
  <2>5. m_data' = SubSeq(data, n + 1, Len(data)) /\ m_nPacketLength' = 0
    BY <2>1, <2>2 DEF ResetHeader
  <2>6. /\ m_data' \in Seq(Byte) /\ Len(m_data') = Len(data) - n
        /\ \A k \in 1 .. Len(data) - n : m_data'[k] = data[n + k]
    BY <2>3, <2>5, RestFacts
  <2>7. ASSUME NEW i \in 1 .. Len(m_data')
        PROVE  m_data'[i][2] \in 1 .. Len(packetsSent)
    <3>1. n + i \in 1 .. Len(data) /\ m_data'[i] = data[n + i]
      BY <1>1, <2>3, <2>6
    <3> QED
      BY <3>1 DEF OfPackets
  <2> QED
    BY <2>1, <2>4, <2>5, <2>6, <2>7
<1> QED
  BY <1>2, <1>3, <1>4 DEF Filter

(* When the head of the next packet is there, its length is read. *)
LEMMA ReadsLength ==
  ASSUME FilterTypeOK, InOrder,
         NEW data \in Seq(Byte), NEW rest \in Seq(Byte), Undelivered(data \o rest),
         m_nPacketLength # 0 => m_nPacketLength = NextLength,
         Len(data) >= HeadSize
  PROVE  /\ Len(received) < Len(packetsSent) /\ NextLength \in Nat
         /\ \A i \in 1 .. HeadSize + NextLength :
              (data \o rest)[i] = <<conn, Len(received) + 1, i>>
         /\ Cut(From(data \o rest, HeadSize + NextLength, Len(data \o rest)),
                Len(data \o rest) - (HeadSize + NextLength), Len(received) + 1,
                Sizes(packetsSent), Len(packetsSent), SentOn(conn))
         /\ PacketLength(data) = {NextLength}
<1> DEFINE r == Len(received)
           n == Len(packetsSent)
           s == data \o rest
           size == Sizes(packetsSent)
<1>1. /\ r \in Nat /\ n \in Nat /\ r <= n /\ HeadSize = 4 /\ Len(data) \in Nat
      /\ \A k \in 1 .. n : packetsSent[k] \in Nat /\ size[k] = HeadSize + packetsSent[k]
                           /\ size[k] \in Nat
  BY LengthFacts DEF InOrder
<1>2. /\ Len(s) \in Nat /\ Len(data) <= Len(s)
      /\ \A i \in 1 .. Len(data) : s[i] = data[i]
  <2>1. /\ Len(s) = Len(data) + Len(rest) /\ Len(rest) \in Nat
        /\ \A i \in 1 .. Len(data) : s[i] = data[i]
    BY ConcatFacts
  <2> HIDE DEF s
  <2> QED
    BY <1>1, <2>1
<1>3. Cut(s, Len(s), r, size, n, SentOn(conn))
  BY DEF Undelivered
<1> HIDE DEF s, size
<1>4. r < n
  <2>1. r # n
    <3>1. Len(s) # 0
      BY <1>1, <1>2
    <3> HIDE DEF r, n
    <3> QED
      BY <1>3, <3>1, CutEnd
  <2> QED
    BY <1>1, <2>1
<1>5. r \in 0 .. n - 1 /\ r + 1 \in 1 .. n
  BY <1>1, <1>4
<1>6. PICK first \in Nat : first = size[r + 1] /\ first = HeadSize + NextLength /\ NextLength \in Nat
  BY <1>1, <1>5 DEF NextLength
<1> HIDE DEF r, n
<1>7. /\ \A i \in 1 .. first : s[i] = SentOn(conn)[r + 1][i]
      /\ Cut(From(s, first, Len(s)), Len(s) - first, r + 1, size, n, SentOn(conn))
  <2>1. \A k \in r + 1 .. n : size[k] \in Nat
    BY <1>1
  <2>2. PICK len \in Nat, m \in Nat : len = Len(s) /\ m = n
    BY <1>1, <1>2
  <2>3. PICK q \in 0 .. m - 1 : q = r
    BY <1>5, <2>2
  <2>4. PICK b : b = SentOn(conn)
    OBVIOUS
  <2>5. Cut(s, len, q, size, m, b) /\ \A k \in q + 1 .. m : size[k] \in Nat
    BY <1>3, <2>1, <2>2, <2>3, <2>4
  <2>6. first = size[q + 1]
    BY <1>6, <2>3
  <2>7. \A i \in 1 .. first : s[i] = b[q + 1][i]
    <3> SUFFICES ASSUME NEW i \in 1 .. first PROVE s[i] = b[q + 1][i]
      OBVIOUS
    <3> QED BY ONLY <2>5, <2>6, CutFirst
  <2>8. Cut(From(s, first, len), len - first, q + 1, size, m, b)
    BY ONLY <2>5, <2>6, CutFirst, Zenon
  <2> QED
    BY <2>2, <2>3, <2>4, <2>7, <2>8
<1>8. \A i \in 1 .. first : s[i] = <<conn, r + 1, i>>
  <2>1. ASSUME NEW i \in 1 .. first
        PROVE  s[i] = <<conn, r + 1, i>>
    <3>1. i \in Nat /\ r + 1 \in Nat
      BY <1>1
    <3>2. s[i] = SentOn(conn)[r + 1][i]
      BY <1>7
    <3> QED
      BY <3>1, <3>2, SentFacts
  <2> QED
    BY <2>1
<1>9. PacketLength(data) = {NextLength}
  <2>1. \A i \in 1 .. HeadSize : data[i] = <<conn, r + 1, i>>
    <3>1. ASSUME NEW i \in 1 .. HeadSize PROVE data[i] = <<conn, r + 1, i>>
      <4>1. i \in 1 .. Len(data) /\ i \in 1 .. first
        BY <1>1, <1>6
      <4> QED
        BY <1>2, <1>8, <4>1
    <3> QED
      BY <3>1
  <2>2. data[1][2] = r + 1
    <3>1. 1 \in 1 .. HeadSize
      BY <1>1
    <3> QED
      BY <2>1, <3>1
  <2>3. UnSerialize(data) = {NextLength}
    BY <2>1, <2>2 DEF UnSerialize, NextLength, r
  <2> QED
    BY <2>3 DEF PacketLength
<1> QED
  BY <1>4, <1>6, <1>7, <1>8, <1>9 DEF r, n, s, size

(* The filter finds the next packet, waits for it, or ends the connection  *)
(* because of it.                                                          *)
LEMMA FilterSync ==
  ASSUME FilterTypeOK, SyncInv, session = "up",
         NEW data \in Seq(Byte), NEW rest \in Seq(Byte), Undelivered(data \o rest),
         Filter(data), wire' = rest, UNCHANGED <<conn, packetsSent>>
  PROVE  SyncInv'
<1> DEFINE r == Len(received)
           n == Len(packetsSent)
<1>1. /\ InOrder /\ UpInv /\ r \in Nat /\ n \in Nat /\ r <= n
      /\ HeadSize = 4 /\ Len(data) \in Nat
      /\ \A k \in 1 .. n : packetsSent[k] \in Nat
  BY LengthFacts DEF SyncInv, InOrder
<1>2. m_nPacketLength # 0 => m_nPacketLength = NextLength
  BY <1>1 DEF UpInv
<1>3. ASSUME Len(data) >= HeadSize
      PROVE  r < n /\ NextLength \in Nat /\ PacketLength(data) = {NextLength}
  BY <1>1, <1>2, <1>3, ReadsLength
<1>4. CASE HeaderNoEnough(data)
  <2>1. /\ m_data' = data /\ more' = FALSE /\ UNCHANGED <<session, received>>
        /\ \/ Len(data) < HeadSize /\ UNCHANGED m_nPacketLength
           \/ /\ Len(data) >= HeadSize
              /\ \E length \in PacketLength(data) :
                   /\ Len(data) < HeadSize + length
                   /\ m_nPacketLength' = length
    BY <1>4 DEF HeaderNoEnough
  <2>2. InOrder' /\ NextLength' = NextLength /\ AllDelivered' = AllDelivered
    BY <1>1, <2>1 DEF InOrder, Content, NextLength, AllDelivered
  <2>3. Undelivered(m_data \o wire)'
    BY <2>1 DEF Undelivered
  <2>4. CASE Len(data) < HeadSize /\ UNCHANGED m_nPacketLength
    <3>1. ~AllDelivered => NextLength \in Nat
      <4>1. ~AllDelivered => r + 1 \in 1 .. n
        BY <1>1 DEF AllDelivered
      <4> QED
        BY <1>1, <4>1 DEF NextLength
    <3>2. ~AllDelivered => Len(data) < HeadSize + NextLength
      BY <1>1, <2>4, <3>1
    <3> QED
      BY <1>1, <2>1, <2>2, <2>3, <2>4, <3>2 DEF SyncInv, UpInv
  <2>5. CASE Len(data) >= HeadSize /\ Len(data) < HeadSize + NextLength
             /\ m_nPacketLength' = NextLength
    <3>1. ~AllDelivered
      BY <1>1, <1>3, <2>5 DEF AllDelivered
    <3> QED
      BY <2>1, <2>2, <2>3, <2>5, <3>1 DEF SyncInv, UpInv
  <2> QED
    BY <1>3, <2>1, <2>4, <2>5
<1>5. CASE HeaderNotAllowed(data)
  <2>1. /\ Len(data) >= HeadSize /\ session' = "failed" /\ UNCHANGED received
        /\ \E length \in PacketLength(data) : NotAllowed(length)
    BY <1>5 DEF HeaderNotAllowed
  <2>2. r < n /\ NotAllowed(NextLength)
    BY <1>3, <2>1
  <2> QED
    BY <1>1, <2>1, <2>2 DEF SyncInv, InOrder, Content, NextLength
<1>6. CASE HeaderFind(data)
  <2>1. /\ r < n /\ NextLength \in Nat /\ Len(data) >= HeadSize
        /\ ~NotAllowed(NextLength) /\ Len(data) >= HeadSize + NextLength
        /\ received' = Append(received, SubSeq(data, HeadSize + 1, HeadSize + NextLength))
        /\ m_data' = SubSeq(data, HeadSize + NextLength + 1, Len(data))
        /\ m_nPacketLength' = 0 /\ more' = TRUE /\ UNCHANGED session
    BY <1>3, <1>6 DEF HeaderFind, ResetHeader
  <2>2. PICK first \in Nat : first = HeadSize + NextLength
    BY <1>1, <2>1
  <2>3. /\ first \in 0 .. Len(data) /\ HeadSize \in 0 .. Len(data)
        /\ first \in HeadSize .. Len(data)
    BY <1>1, <2>1, <2>2
  <2>4. /\ \A i \in 1 .. first : (data \o rest)[i] = <<conn, r + 1, i>>
        /\ Cut(From(data \o rest, first, Len(data \o rest)), Len(data \o rest) - first,
               r + 1, Sizes(packetsSent), n, SentOn(conn))
    BY <1>1, <1>2, <2>1, <2>2, ReadsLength
  <2>5. SubSeq(data, HeadSize + 1, first) = Content(r + 1)
    <3> DEFINE part == SubSeq(data, HeadSize + 1, first)
    <3>1. /\ part \in Seq(Byte) /\ Len(part) = first - HeadSize
          /\ \A i \in 1 .. first - HeadSize : part[i] = data[HeadSize + i]
      BY <2>3, PartFacts
    <3> HIDE DEF part
    <3>3. ASSUME NEW i \in 1 .. first - HeadSize
          PROVE  part[i] = <<conn, r + 1, HeadSize + i>>
      <4>1. HeadSize + i \in 1 .. first /\ HeadSize + i \in 1 .. Len(data)
        BY <1>1, <2>3
      <4>2. data[HeadSize + i] = (data \o rest)[HeadSize + i]
        BY <4>1, ConcatFacts
      <4>3. (data \o rest)[HeadSize + i] = <<conn, r + 1, HeadSize + i>>
        BY <2>4, <4>1
      <4>4. part[i] = data[HeadSize + i]
        BY <3>1
      <4> QED
        BY ONLY <4>2, <4>3, <4>4
    <3>4. PICK length \in Nat : length = first - HeadSize /\ length = packetsSent[r + 1]
      BY <1>1, <2>1, <2>2 DEF NextLength
    <3>5. Content(r + 1) = [i \in 1 .. length |-> <<conn, r + 1, HeadSize + i>>]
      BY <3>4 DEF Content
    <3>6. PICK content : content = Content(r + 1)
      OBVIOUS
    <3>7. ASSUME NEW i \in 1 .. length
          PROVE  content[i] = part[i] /\ part[i] \in Byte
      <4>1. content[i] = <<conn, r + 1, HeadSize + i>>
        BY ONLY <3>5, <3>6
      <4>2. i \in 1 .. first - HeadSize
        BY <3>4
      <4>3. part[i] = <<conn, r + 1, HeadSize + i>>
        BY <3>3, <4>2
      <4>4. part[i] \in Byte
        <5>1. i \in 1 .. Len(part) /\ part \in Seq(Byte)
          BY <3>1, <4>2
        <5> QED
          BY ONLY <5>1, ElementOfSeq
      <4> QED
        BY ONLY <4>1, <4>3, <4>4
    <3>8. content \in [1 .. length -> Byte]
      BY <3>5, <3>6, <3>7
    <3>9. content \in Seq(Byte) /\ Len(content) = length
      BY ONLY <3>8, length \in Nat
    <3>10. Len(part) = length
      BY <3>1, <3>4
    <3> QED
      BY <3>1, <3>6, <3>7, <3>9, <3>10, SeqEqual DEF part
  <2>6. PICK content \in Seq(Byte) :
          /\ content = Content(r + 1) /\ received' = Append(received, content)
    <3>1. SubSeq(data, HeadSize + 1, first) \in Seq(Byte)
      BY <2>3, PartFacts
    <3> QED
      BY <2>1, <2>2, <2>5, <3>1
  <2>7. /\ Len(received') = r + 1
        /\ \A k \in 1 .. r : received'[k] = received[k]
        /\ received'[r + 1] = Content(r + 1)
    <3>1. received \in Seq(Seq(Byte))
      BY DEF FilterTypeOK
    <3> QED
      BY <2>6, <3>1, AppendProperties
  <2>8. InOrder'
    <3>1. \A k \in Nat : Content(k)' = Content(k)
      BY DEF Content
    <3>2. \A k \in 1 .. r + 1 : received'[k] = Content(k)
      <4> SUFFICES ASSUME NEW k \in 1 .. r + 1 PROVE received'[k] = Content(k)
        OBVIOUS
      <4>1. k \in 1 .. r \/ k = r + 1
        BY <1>1
      <4>2. \A j \in 1 .. r : received[j] = Content(j)
        BY <1>1 DEF InOrder
      <4> QED
        BY <2>7, <4>1, <4>2
    <3> QED
      BY <1>1, <2>1, <2>7, <3>1, <3>2 DEF InOrder
  <2>9. Undelivered(m_data \o wire)'
    <3> DEFINE s == data \o rest
               s2 == SubSeq(data, first + 1, Len(data)) \o rest
    <3>1. /\ Len(s2) = Len(s) - first
          /\ \A k \in 1 .. Len(s) - first : s2[k] = s[first + k]
      <4>1. first \in 0 .. Len(data)
        BY <2>3
      <4>2. PICK S : S = Byte
        OBVIOUS
      <4>3. data \in Seq(S) /\ rest \in Seq(S)
        BY <4>2
      <4> HIDE DEF s, s2
      <4>4. /\ Len(SubSeq(data, first + 1, Len(data)) \o rest) = Len(data \o rest) - first
            /\ \A k \in 1 .. Len(data \o rest) - first :
                 (SubSeq(data, first + 1, Len(data)) \o rest)[k] = (data \o rest)[first + k]
        BY ONLY <4>1, <4>3, RestOfConcat
      <4> QED
        BY ONLY <4>4 DEF s, s2
    <3>6. (m_data \o wire)' = s2
      BY <2>1, <2>2
    <3>2. Len(s) \in Nat /\ first <= Len(s)
      <4>1. Len(s) = Len(data) + Len(rest) /\ Len(rest) \in Nat
        BY ConcatFacts
      <4> HIDE DEF s
      <4> QED
        BY <1>1, <2>3, <4>1
    <3> HIDE DEF s, s2
    <3>3. PICK len \in Nat : len = Len(s) - first
      <4>1. Len(s) - first \in Nat
        BY <3>2
      <4> QED
        BY <4>1
    <3>4. /\ Cut(From(s, first, Len(s)), len, r + 1, Sizes(packetsSent), n, SentOn(conn))
          /\ \A k \in 1 .. len : s2[k] = From(s, first, Len(s))[k]
          /\ Len(s2) = len
      BY <2>4, <3>1, <3>3 DEF From, s
    <3>5. Cut(s2, len, r + 1, Sizes(packetsSent), n, SentOn(conn))
      <4>1. \A k \in r + 1 + 1 .. n : Sizes(packetsSent)[k] \in Nat
        <5>1. \A k \in r + 1 + 1 .. n : k \in 1 .. n
          BY <1>1
        <5> QED
          BY <5>1, LengthFacts
      <4>2. PICK q \in 0 .. n : q = r + 1
        BY <1>1, <2>1
      <4> QED
        BY <1>1, <3>4, <4>1, <4>2, CutSame
    <3> QED
      BY <2>7, <3>4, <3>5, <3>6 DEF Undelivered
  <2> QED
    BY <2>1, <2>8, <2>9 DEF SyncInv, UpInv
<1> QED
  BY <1>4, <1>5, <1>6 DEF Filter

(***************************************************************************)
(* The steps.                                                              *)
(***************************************************************************)
(* Nothing is there at first. *)
LEMMA FilterInitially == FilterInit => FilterInv
<1> SUFFICES ASSUME FilterInit PROVE FilterInv
  OBVIOUS
<1>1. /\ session = "up" /\ packetsSent = <<>> /\ wire = <<>> /\ m_data = <<>>
      /\ received = <<>> /\ m_nPacketLength = 0 /\ conn = 1 /\ more = FALSE /\ stale = FALSE
  BY DEF FilterInit
<1>2. FilterTypeOK
  <2>1. <<>> \in Seq(Length) /\ <<>> \in Seq(Byte) /\ <<>> \in Seq(Seq(Byte))
    BY EmptySeq
  <2>2. 1 \in 1 .. MaxConn
    BY FilterAssumption
  <2> QED
    BY <1>1, <2>1, <2>2 DEF FilterTypeOK
<1>3. OfPackets(m_data) /\ OfPackets(wire) /\ DownInv
  BY <1>1 DEF OfPackets, DownInv
<1>4. InOrder
  BY <1>1 DEF InOrder
<1>5. Undelivered(m_data \o wire)
  <2>1. Len(m_data \o wire) = 0 /\ Len(received) = 0 /\ Len(packetsSent) = 0
    BY <1>1
  <2> QED
    BY <2>1, CutNothing DEF Undelivered
<1>6. UpInv
  BY <1>1, <1>5 DEF UpInv, AllDelivered
<1> QED
  BY <1>1, <1>2, <1>3, <1>4, <1>6 DEF FilterInv, SyncInv

(* A packet is put behind those that are on their way. *)
LEMMA SendStep ==
  ASSUME FilterInv, NEW length \in Length, OnPreSend(length)
  PROVE  FilterInv'
<1> DEFINE n == Len(packetsSent)
           bytes == Bytes(n + 1, length)
<1>1. /\ session = "up" /\ n < MaxSend
      /\ packetsSent' = Append(packetsSent, length) /\ wire' = wire \o bytes
      /\ UNCHANGED <<session, conn, m_data, m_nPacketLength, more, received, stale>>
  BY DEF OnPreSend
<1>2. /\ FilterTypeOK /\ length \in Nat /\ n \in Nat /\ HeadSize = 4 /\ n + 1 \in 1 .. MaxSend
      /\ packetsSent \in Seq(Length) /\ wire \in Seq(Byte) /\ m_data \in Seq(Byte)
      /\ conn \in 1 .. MaxConn
  BY <1>1, LengthFacts, FilterAssumption DEF FilterInv, FilterTypeOK
<1>3. /\ Len(packetsSent') = n + 1 /\ packetsSent'[n + 1] = length
      /\ \A k \in 1 .. n : packetsSent'[k] = packetsSent[k]
      /\ packetsSent' \in Seq(Length)
  BY <1>1, <1>2, AppendProperties
<1>4. PICK size \in Nat : size = HeadSize + length
  BY <1>2
<1>5. /\ bytes \in Seq(Byte) /\ Len(bytes) = size
      /\ \A i \in 1 .. size : bytes[i] = <<conn, n + 1, i>>
  <2>1. bytes = [i \in 1 .. size |-> <<conn, n + 1, i>>]
    BY <1>4 DEF Bytes
  <2>2. \A i \in 1 .. size : <<conn, n + 1, i>> \in Byte
    BY <1>2 DEF Byte
  <2> HIDE DEF bytes
  <2>3. bytes \in [1 .. size -> Byte]
    BY <2>1, <2>2
  <2> QED
    BY ONLY <2>1, <2>3, size \in Nat
<1> HIDE DEF bytes
<1>6. FilterTypeOK'
  <2>1. wire' \in Seq(Byte)
    BY <1>1, <1>2, <1>5, ConcatFacts
  <2> QED
    BY <1>1, <1>2, <1>3, <2>1 DEF FilterTypeOK
<1>7. OfPackets(m_data)' /\ OfPackets(wire)'
  <2>3. /\ \A i \in 1 .. Len(m_data) : m_data[i][2] \in 1 .. n
        /\ \A i \in 1 .. Len(wire) : wire[i][2] \in 1 .. n
    BY DEF FilterInv, OfPackets
  <2>4. \A k \in 1 .. n : k \in 1 .. n + 1
    BY <1>2
  <2>1. OfPackets(m_data)'
    BY <1>1, <1>3, <2>3, <2>4 DEF OfPackets
  <2>2. ASSUME NEW i \in 1 .. Len(wire')
        PROVE  wire'[i][2] \in 1 .. n + 1
    <3>1. /\ Len(wire') = Len(wire) + size /\ Len(wire) \in Nat
          /\ \A k \in 1 .. Len(wire) : wire'[k] = wire[k]
          /\ \A k \in 1 .. size : wire'[Len(wire) + k] = bytes[k]
      <4>1. wire \in Seq(Byte) /\ bytes \in Seq(Byte)
        BY <1>2, <1>5
      <4>2. /\ Len(wire \o bytes) = Len(wire) + Len(bytes) /\ Len(wire) \in Nat
            /\ \A k \in 1 .. Len(wire) : (wire \o bytes)[k] = wire[k]
            /\ \A k \in 1 .. Len(bytes) : (wire \o bytes)[Len(wire) + k] = bytes[k]
        BY ONLY <4>1, ConcatFacts
      <4> QED
        BY ONLY <1>1, <1>5, <4>2
    <3>2. \/ i \in 1 .. Len(wire)
          \/ i - Len(wire) \in 1 .. size /\ i = Len(wire) + (i - Len(wire))
      BY <3>1
    <3>3. CASE i \in 1 .. Len(wire)
      BY <2>3, <2>4, <3>1, <3>3
    <3>4. ASSUME NEW k \in 1 .. size, i = Len(wire) + k
          PROVE  wire'[i][2] \in 1 .. n + 1
      <4>1. wire'[i] = <<conn, n + 1, k>>
        BY <1>5, <3>1, <3>4
      <4> QED
        BY <1>2, <4>1
    <3> QED
      BY <3>2, <3>3, <3>4
  <2> QED
    BY <1>3, <2>1, <2>2 DEF OfPackets
<1>8. ASSUME SyncInv
      PROVE  SyncInv'
  <2> DEFINE r == Len(received)
             s == m_data \o wire
  <2>1. /\ r \in 0 .. n /\ r \in Nat /\ InOrder /\ UpInv
    BY <1>1, <1>2, <1>8, LengthFacts DEF SyncInv, InOrder
  <2>2. InOrder'
    <3>1. \A k \in 1 .. r : received'[k] = Content(k)'
      BY <1>1, <1>2, <1>3, <2>1 DEF InOrder, Content
    <3> QED
      BY <1>1, <1>2, <1>3, <2>1, <3>1 DEF InOrder
  <2>3. PICK len \in Nat : len = Len(s)
    <3>1. Len(s) \in Nat
      BY <1>2, ConcatFacts
    <3> QED
      BY <3>1
  <2>4. Cut(s, len, r, Sizes(packetsSent), n, SentOn(conn))
    BY <2>1, <2>3 DEF UpInv, Undelivered
  <2>5. /\ (m_data \o wire)' = s \o bytes
        /\ Len(s \o bytes) = len + size
        /\ \A i \in 1 .. len : (s \o bytes)[i] = s[i]
        /\ \A i \in 1 .. size : (s \o bytes)[len + i] = SentOn(conn)[n + 1][i]
    <3>1. (m_data \o wire)' = s \o bytes
      <4>1. m_data \o (wire \o bytes) = s \o bytes
        <5>1. m_data \in Seq(Byte) /\ wire \in Seq(Byte) /\ bytes \in Seq(Byte)
          BY <1>2, <1>5
        <5> QED
          BY ONLY <5>1, ConcatAssociative
      <4> QED
        BY <1>1, <4>1
    <3>2. s \in Seq(Byte)
      BY <1>2, ConcatFacts
    <3> HIDE DEF s
    <3>3. /\ Len(s \o bytes) = len + size
          /\ \A i \in 1 .. len : (s \o bytes)[i] = s[i]
          /\ \A i \in 1 .. size : (s \o bytes)[len + i] = bytes[i]
      <4>1. bytes \in Seq(Byte)
        BY <1>5
      <4>2. /\ Len(s \o bytes) = Len(s) + Len(bytes)
            /\ \A i \in 1 .. Len(s) : (s \o bytes)[i] = s[i]
            /\ \A i \in 1 .. Len(bytes) : (s \o bytes)[Len(s) + i] = bytes[i]
        BY ONLY <3>2, <4>1, ConcatFacts
      <4> QED
        BY ONLY <1>5, <2>3, <4>2
    <3>4. \A i \in 1 .. size : bytes[i] = SentOn(conn)[n + 1][i]
      <4> SUFFICES ASSUME NEW i \in 1 .. size PROVE bytes[i] = SentOn(conn)[n + 1][i]
        OBVIOUS
      <4>1. i \in Nat /\ n + 1 \in Nat
        BY <1>2
      <4> QED
        BY <1>5, <4>1, SentFacts
    <3> QED
      BY <3>1, <3>3, <3>4
  <2> HIDE DEF s
  <2>6. Undelivered(m_data \o wire)'
    <3> DEFINE sizes == Sizes(packetsSent)
               sizes2 == Sizes(packetsSent')
    <3>1. /\ \A k \in r + 1 .. n : sizes[k] \in Nat /\ sizes2[k] = sizes[k]
          /\ sizes2[n + 1] = size
      <4>1. \A k \in r + 1 .. n : k \in 1 .. n /\ k \in 1 .. n + 1
        BY <1>2, <2>1
      <4>2. \A k \in 1 .. n : sizes[k] \in Nat /\ sizes[k] = HeadSize + packetsSent[k]
        BY <1>2, LengthFacts
      <4>3. \A k \in 1 .. n + 1 : sizes2[k] = HeadSize + packetsSent'[k]
        BY <1>3 DEF Sizes
      <4>4. n + 1 \in 1 .. n + 1
        BY <1>2
      <4> HIDE DEF sizes, sizes2
      <4> QED
        BY <1>3, <1>4, <4>1, <4>2, <4>3, <4>4
    <3>2. PICK m \in Nat : m = n
      BY <1>2
    <3>3. PICK q \in 0 .. m : q = r
      BY <2>1, <3>2
    <3> HIDE DEF sizes, sizes2, n, r
    <3>4. /\ Cut(s, len, q, sizes, m, SentOn(conn))
          /\ \A k \in q + 1 .. m : sizes[k] \in Nat
          /\ \A k \in q + 1 .. m : sizes2[k] = sizes[k]
          /\ sizes2[m + 1] = size
      BY <2>4, <3>1, <3>2, <3>3 DEF sizes
    <3>5. PICK s2 : s2 = s \o bytes
      OBVIOUS
    <3>6. PICK b : b = SentOn(conn)
      OBVIOUS
    <3>7. /\ \A i \in 1 .. len : s2[i] = s[i]
          /\ \A i \in 1 .. size : s2[len + i] = b[m + 1][i]
      BY <2>5, <3>2, <3>5, <3>6
    <3>8. Cut(s, len, q, sizes, m, b)
      BY <3>4, <3>6
    <3>9. Cut(s2, len + size, q, sizes2, m + 1, b)
      <4>1. /\ len \in Nat /\ m \in Nat /\ q \in 0 .. m /\ size \in Nat
            /\ \A k \in q + 1 .. m : sizes[k] \in Nat
            /\ \A k \in q + 1 .. m : sizes2[k] = sizes[k]
            /\ sizes2[m + 1] = size
        BY <3>4
      <4> QED
        BY ONLY <3>7, <3>8, <4>1, CutAppend
    <3> QED
      BY <1>1, <1>3, <2>5, <3>2, <3>3, <3>5, <3>6, <3>9 DEF Undelivered, sizes2, n, r
  <2>7. m_nPacketLength' # 0 => ~AllDelivered' /\ m_nPacketLength' = NextLength'
    <3>1. m_nPacketLength # 0 => r \in 0 .. n - 1 /\ m_nPacketLength = packetsSent[r + 1]
      BY <1>2, <2>1 DEF UpInv, AllDelivered, NextLength
    <3>2. r \in 0 .. n - 1 => r + 1 \in 1 .. n /\ r # n + 1
      BY <1>2
    <3> QED
      BY <1>1, <1>3, <3>1, <3>2 DEF AllDelivered, NextLength
  <2>8. ~more' => Len(m_data') < HeadSize + NextLength'
    <3>1. CASE r = n
      <4>1. len = 0
        BY <2>4, <3>1, CutEnd
      <4>2. Len(s) = Len(m_data) + Len(wire) /\ Len(m_data) \in Nat /\ Len(wire) \in Nat
        <5>1. m_data \in Seq(Byte) /\ wire \in Seq(Byte)
          BY <1>2
        <5> QED
          BY ONLY <5>1, ConcatFacts DEF s
      <4>3. PICK d \in Nat, w \in Nat : d = Len(m_data) /\ w = Len(wire)
        BY <4>2
      <4>4. 0 = d + w
        BY ONLY <2>3, <4>1, <4>2, <4>3
      <4>5. Len(m_data) = 0
        BY ONLY d \in Nat, w \in Nat, <4>3, <4>4
      <4> QED
        BY <1>1, <1>2, <1>3, <3>1, <4>5 DEF NextLength
    <3>2. CASE r # n
      <4>1. ~more => Len(m_data) < HeadSize + packetsSent[r + 1]
        BY <2>1, <3>2 DEF UpInv, AllDelivered, NextLength
      <4>2. r + 1 \in 1 .. n
        BY <1>2, <2>1, <3>2
      <4> QED
        BY <1>1, <1>3, <4>1, <4>2 DEF NextLength
    <3> QED
      BY <3>1, <3>2
  <2> QED
    BY <2>2, <2>6, <2>7, <2>8 DEF SyncInv, UpInv
<1> QED
  BY <1>1, <1>6, <1>7, <1>8 DEF FilterInv, DownInv

(* The filter is called with the bytes it has and some that arrive.        *)
LEMMA FilterStep ==
  ASSUME FilterInv, session = "up",
         NEW data \in Seq(Byte), NEW rest \in Seq(Byte), data \o rest = m_data \o wire,
         OfPackets(data), OfPackets(rest),
         Filter(data), wire' = rest, UNCHANGED <<conn, packetsSent, stale>>
  PROVE  FilterInv'
<1>1. FilterTypeOK /\ (stale \/ SyncInv)
  BY DEF FilterInv
<1>2. /\ session' \in {"up", "failed"} /\ more' \in BOOLEAN
      /\ session' # "up" => ~more'
      /\ m_data' \in Seq(Byte) /\ m_nPacketLength' \in Nat /\ received' \in Seq(Seq(Byte))
      /\ \A i \in 1 .. Len(m_data') : m_data'[i][2] \in 1 .. Len(packetsSent)
  BY <1>1, FilterType
<1>3. FilterTypeOK'
  BY <1>1, <1>2 DEF FilterTypeOK
<1>4. OfPackets(m_data)' /\ OfPackets(wire)'
  BY <1>2 DEF OfPackets
<1>5. DownInv'
  BY <1>2 DEF DownInv
<1>6. ASSUME SyncInv
      PROVE  SyncInv'
  <2>1. Undelivered(data \o rest)
    BY <1>6 DEF SyncInv, UpInv
  <2> QED
    BY <1>1, <1>6, <2>1, FilterSync
<1> QED
  BY <1>1, <1>3, <1>4, <1>5, <1>6 DEF FilterInv

(* What arrives is put behind what the filter has. *)
LEMMA ReceiveStep ==
  ASSUME FilterInv, NEW cbData \in 1 .. Len(wire), OnPreReceive(cbData)
  PROVE  FilterInv'
<1> DEFINE part == SubSeq(wire, 1, cbData)
           rest == SubSeq(wire, cbData + 1, Len(wire))
<1>1. /\ session = "up" /\ wire' = rest /\ Filter(m_data \o part)
      /\ UNCHANGED <<conn, packetsSent, stale>>
  BY DEF OnPreReceive
<1>2. /\ m_data \in Seq(Byte) /\ wire \in Seq(Byte) /\ cbData \in 0 .. Len(wire)
      /\ OfPackets(m_data) /\ OfPackets(wire)
  BY DEF FilterInv, FilterTypeOK
<1>3. /\ part \in Seq(Byte) /\ Len(part) = cbData
      /\ \A i \in 1 .. cbData : part[i] = wire[i]
  BY <1>2
<1>4. /\ rest \in Seq(Byte) /\ Len(rest) = Len(wire) - cbData
      /\ \A i \in 1 .. Len(wire) - cbData : rest[i] = wire[cbData + i]
  BY <1>2, RestFacts
<1>5. (m_data \o part) \o rest = m_data \o wire
  BY <1>2, TakeOver
<1> HIDE DEF part, rest
<1>6. /\ m_data \o part \in Seq(Byte) /\ Len(m_data \o part) = Len(m_data) + Len(part)
      /\ \A i \in 1 .. Len(m_data) : (m_data \o part)[i] = m_data[i]
      /\ \A i \in 1 .. Len(part) : (m_data \o part)[Len(m_data) + i] = part[i]
      /\ Len(m_data) \in Nat /\ Len(wire) \in Nat
  <2>1. m_data \in Seq(Byte) /\ wire \in Seq(Byte) /\ part \in Seq(Byte)
    BY <1>2, <1>3
  <2> QED
    BY ONLY <2>1, ConcatFacts
<1>7. OfPackets(m_data \o part)
  <2> SUFFICES ASSUME NEW i \in 1 .. Len(m_data \o part)
               PROVE  (m_data \o part)[i][2] \in 1 .. Len(packetsSent)
    BY DEF OfPackets
  <2>1. PICK s : s = m_data \o part
    OBVIOUS
  <2>2. PICK d \in Nat : d = Len(m_data)
    BY <1>6
  <2>3. /\ i \in 1 .. d + cbData
        /\ \A k \in 1 .. d : s[k] = m_data[k]
        /\ \A k \in 1 .. cbData : s[d + k] = wire[k]
    BY <1>3, <1>6, <2>1, <2>2
  <2>4. \/ i \in 1 .. d
        \/ i - d \in 1 .. cbData /\ i = d + (i - d)
    BY ONLY <2>3, d \in Nat, cbData \in 1 .. Len(wire), Len(wire) \in Nat, <1>6
  <2>5. CASE i \in 1 .. d
    BY <1>2, <2>1, <2>2, <2>3, <2>5 DEF OfPackets
  <2>6. ASSUME NEW k \in 1 .. cbData, i = d + k
        PROVE  s[i][2] \in 1 .. Len(packetsSent)
    <3>1. k \in 1 .. Len(wire) /\ s[i] = wire[k]
      BY <1>2, <1>6, <2>3, <2>6
    <3> QED
      BY <1>2, <3>1 DEF OfPackets
  <2> QED
    BY <2>1, <2>4, <2>5, <2>6
<1>8. OfPackets(rest)
  <2> SUFFICES ASSUME NEW i \in 1 .. Len(rest)
               PROVE  rest[i][2] \in 1 .. Len(packetsSent)
    BY DEF OfPackets
  <2>1. cbData + i \in 1 .. Len(wire) /\ rest[i] = wire[cbData + i]
    BY <1>2, <1>4, <1>6
  <2> QED
    BY <1>2, <2>1 DEF OfPackets
<1> QED
  BY <1>1, <1>4, <1>5, <1>6, <1>7, <1>8, FilterStep

(* The filter goes on with what it has. *)
LEMMA NextStep ==
  ASSUME FilterInv, OnPreReceiveNext
  PROVE  FilterInv'
<1>1. /\ session = "up" /\ Filter(m_data) /\ wire' = wire
      /\ UNCHANGED <<conn, packetsSent, stale>>
  BY DEF OnPreReceiveNext
<1>2. /\ m_data \in Seq(Byte) /\ wire \in Seq(Byte)
      /\ OfPackets(m_data) /\ OfPackets(wire)
  BY DEF FilterInv, FilterTypeOK
<1> QED
  BY <1>1, <1>2, FilterStep

(* A connection that is down has nothing to keep but what was delivered. *)
LEMMA DisconnectStep ==
  ASSUME FilterInv, Disconnect
  PROVE  FilterInv'
<1>1. /\ session' = "down" /\ wire' = <<>> /\ ~more
      /\ UNCHANGED <<conn, packetsSent, m_data, m_nPacketLength, more, received, stale>>
  BY DEF Disconnect
<1>2. FilterTypeOK'
  BY <1>1 DEF FilterInv, FilterTypeOK
<1>3. OfPackets(m_data)' /\ OfPackets(wire)'
  BY <1>1 DEF FilterInv, OfPackets
<1>4. DownInv'
  BY <1>1 DEF DownInv
<1>5. SyncInv => SyncInv'
  BY <1>1 DEF SyncInv, InOrder, Content
<1> QED
  BY <1>1, <1>2, <1>3, <1>4, <1>5 DEF FilterInv

(* The next connection begins with nothing, unless with a length. *)
LEMMA ResetStep ==
  ASSUME FilterInv, ResetPreSend
  PROVE  FilterInv'
<1>1. /\ session' = "up" /\ conn' = conn + 1 /\ conn < MaxConn
      /\ m_data' = <<>> /\ wire' = <<>> /\ ~more' /\ more' = more
      /\ packetsSent' = <<>> /\ received' = <<>>
      /\ stale' = (stale \/ m_nPacketLength # 0)
      /\ m_nPacketLength' = m_nPacketLength
  BY DEF FilterInv, DownInv, ResetPreSend
<1>2. FilterTypeOK'
  <2>1. <<>> \in Seq(Length) /\ <<>> \in Seq(Byte) /\ <<>> \in Seq(Seq(Byte))
    BY EmptySeq
  <2>2. conn + 1 \in 1 .. MaxConn
    BY <1>1, FilterAssumption DEF FilterInv, FilterTypeOK
  <2> QED
    BY <1>1, <2>1, <2>2 DEF FilterInv, FilterTypeOK
<1>3. OfPackets(m_data)' /\ OfPackets(wire)'
  BY <1>1 DEF OfPackets
<1>4. DownInv'
  BY <1>1 DEF DownInv
<1>5. ASSUME m_nPacketLength = 0
      PROVE  SyncInv'
  <2>1. InOrder'
    BY <1>1 DEF InOrder
  <2>2. Len((m_data \o wire)') = 0 /\ Len(received') = 0 /\ Len(packetsSent') = 0
    BY <1>1
  <2>3. Undelivered(m_data \o wire)'
    BY <2>2, CutNothing DEF Undelivered
  <2>4. UpInv'
    BY <1>1, <1>5, <2>3 DEF UpInv, AllDelivered
  <2> QED
    BY <2>1, <2>4 DEF SyncInv
<1> QED
  BY <1>1, <1>2, <1>3, <1>4, <1>5 DEF FilterInv

(* Nothing happens. *)
LEMMA StutterStep ==
  ASSUME FilterInv, UNCHANGED filterVars
  PROVE  FilterInv'
<1>1. /\ FilterTypeOK' /\ OfPackets(m_data)' /\ OfPackets(wire)' /\ DownInv'
  BY DEF FilterInv, filterVars, FilterTypeOK, OfPackets, DownInv
<1>2. SyncInv => SyncInv'
  BY DEF SyncInv, InOrder, Content, UpInv, Undelivered, AllDelivered, NextLength, filterVars
<1> QED
  BY <1>1, <1>2 DEF FilterInv, filterVars

(* In every state the undelivered bytes are the undelivered packets.       *)
THEOREM FilterInvariance == FilterSpec => []FilterInv
<1>1. FilterInit => FilterInv
  BY FilterInitially
<1>2. FilterInv /\ [FilterNext]_filterVars => FilterInv'
  <2> SUFFICES ASSUME FilterInv, [FilterNext]_filterVars PROVE FilterInv'
    OBVIOUS
  <2>1. CASE \E length \in Length : OnPreSend(length)
    BY <2>1, SendStep
  <2>2. CASE \E cbData \in 1 .. Len(wire) : OnPreReceive(cbData)
    BY <2>2, ReceiveStep
  <2>3. CASE OnPreReceiveNext
    BY <2>3, NextStep
  <2>4. CASE Disconnect
    BY <2>4, DisconnectStep
  <2>5. CASE ResetPreSend
    BY <2>5, ResetStep
  <2>6. CASE UNCHANGED filterVars
    BY <2>6, StutterStep
  <2> QED
    BY <2>1, <2>2, <2>3, <2>4, <2>5, <2>6 DEF FilterNext
<1> QED
  BY <1>1, <1>2, PTL DEF FilterSpec

(* Every variable of the filter and its session keeps its type.            *)
THEOREM FilterTypeCorrect == FilterSpec => []FilterTypeOK
<1>1. FilterInv => FilterTypeOK
  BY DEF FilterInv
<1> QED
  BY <1>1, FilterInvariance, PTL

(* While the filter waits, the next packet ends in what is on its way.     *)
LEMMA NextOnItsWay ==
  ASSUME FilterTypeOK, InOrder, UpInv, session = "up", ~more
  PROVE  NoneWithheld
<1> DEFINE r == Len(received)
           n == Len(packetsSent)
           s == m_data \o wire
           size == Sizes(packetsSent)
<1> SUFFICES ASSUME NEW k \in 1 .. n, r < k
             PROVE  \E i \in 1 .. Len(wire) : wire[i][2] <= k
  BY DEF NoneWithheld
<1>1. /\ r \in 0 .. n - 1 /\ n \in Nat /\ r \in Nat /\ r + 1 \in 1 .. n /\ HeadSize = 4
      /\ \A j \in 1 .. n : size[j] \in Nat /\ size[j] = HeadSize + packetsSent[j]
  BY LengthFacts
<1>2. m_data \in Seq(Byte) /\ wire \in Seq(Byte)
  BY DEF FilterTypeOK
<1>3. /\ Len(s) = Len(m_data) + Len(wire) /\ Len(m_data) \in Nat /\ Len(wire) \in Nat
      /\ Len(s) \in Nat
      /\ \A i \in 1 .. Len(wire) : s[Len(m_data) + i] = wire[i]
  BY ONLY <1>2, ConcatFacts
<1>4. Cut(s, Len(s), r, size, n, SentOn(conn))
  BY DEF UpInv, Undelivered
<1>5. PICK first \in Nat : first = size[r + 1] /\ first > Len(m_data)
  <2>1. Len(m_data) < HeadSize + NextLength
    BY <1>1 DEF UpInv, AllDelivered
  <2>2. size[r + 1] = HeadSize + NextLength /\ size[r + 1] \in Nat
    BY <1>1 DEF NextLength
  <2> HIDE DEF r, size
  <2> QED
    BY <1>3, <2>1, <2>2
<1> HIDE DEF s, size, r, n
<1>6. PICK len \in Nat, m \in Nat : len = Len(s) /\ m = n
  BY <1>1, <1>3
<1>7. PICK q \in 0 .. m - 1 : q = r
  BY <1>1, <1>6
<1>8. /\ Cut(s, len, q, size, m, SentOn(conn)) /\ first = size[q + 1]
      /\ \A j \in q + 1 .. m : size[j] \in Nat
  BY <1>1, <1>4, <1>5, <1>6, <1>7
<1>9. first <= len /\ \A i \in 1 .. first : s[i] = SentOn(conn)[q + 1][i]
  <2>1. Cut(s, len, q, size, m, SentOn(conn)) /\ \A j \in q + 1 .. m : size[j] \in Nat
    BY <1>8
  <2>2. first = size[q + 1]
    BY <1>8
  <2>3. first <= len
    BY ONLY <2>1, <2>2, CutFirst
  <2>4. \A i \in 1 .. first : s[i] = SentOn(conn)[q + 1][i]
    BY ONLY <2>1, <2>2, CutFirst
  <2> QED
    BY <2>3, <2>4
<1>10. PICK i \in 1 .. Len(wire) : Len(m_data) + i = first
  <2>1. first - Len(m_data) \in 1 .. Len(wire)
    BY <1>3, <1>5, <1>6, <1>9
  <2>2. Len(m_data) + (first - Len(m_data)) = first
    BY <1>3, <1>5
  <2> QED
    BY <2>1, <2>2
<1>11. wire[i] = <<conn, q + 1, first>>
  <2>1. first \in 1 .. first /\ q + 1 \in Nat
    BY <1>3, <1>5, <1>7
  <2>2. s[first] = SentOn(conn)[q + 1][first] /\ s[first] = wire[i]
    BY <1>3, <1>9, <1>10, <2>1
  <2> QED
    BY <2>1, <2>2, SentFacts
<1>12. q + 1 <= k
  BY <1>1, <1>6, <1>7 DEF n
<1> QED
  BY <1>11, <1>12

(* What is delivered is what was sent on this connection, packet by packet *)
(* and whole, the connection fails only at a packet that may not be sent,  *)
(* and no packet that has arrived waits for the next: as long as no        *)
(* connection began with a length of another.                              *)
THEOREM FramesWhole == FilterSpec => []FramedUnlessStale
<1>1. ASSUME FilterInv PROVE FramedUnlessStale
  <2> SUFFICES ASSUME ~stale PROVE Framed
    BY DEF FramedUnlessStale
  <2>1. FilterTypeOK /\ InOrder /\ (session = "up" => UpInv)
    BY <1>1 DEF FilterInv, SyncInv
  <2>2. CASE session = "up" /\ ~more
    BY <2>1, <2>2, NextOnItsWay DEF Framed
  <2>3. CASE ~(session = "up" /\ ~more)
    BY <2>1, <2>3 DEF Framed, NoneWithheld
  <2> QED
    BY <2>2, <2>3
<1> QED
  BY <1>1, FilterInvariance, PTL

=============================================================================
