---------------------------- MODULE DispatchProofs ----------------------------
(***************************************************************************)
(* Proofs about Dispatch for every finite number of services and of        *)
(* threads.  The invariant has six parts: the frame of each thread is one  *)
(* that the code produces (Frames); every reference is counted (Counted),  *)
(* and nobody has one to a context that is being deleted (Dead); a mailbox *)
(* has one owner while it is scheduled, or released and not freed, and     *)
(* none otherwise (Owners); a service that can be found is ready or is     *)
(* still held by its launch (Ready); the rest is types.                    *)
(*                                                                         *)
(* Each step is shown once to move one thread to another frame (Moved), to *)
(* change ref by what that frame holds more or less (Balanced) and to keep *)
(* or hand over the mailboxes of the thread; the parts of the invariant    *)
(* follow from that and not from the step.                                 *)
(***************************************************************************)
EXTENDS Dispatch, FiniteSetTheorems, TLAPS

Ids == Ctx \cup {NoCtx}

(* Where a send may return to, where a release may, and the steps that are *)
(* not in one of them                                                      *)
CallRet == {"outside", "callback", "init", "retire", "drop"}
ReleaseRet == CallRet \cup {"poll", "grab", "set_init", "retire_new", "mq_release"}
NewBase == {"init", "set_init", "push_new", "push_gone", "launched", "retire_new"}
Bases == ReleaseRet \cup NewBase \cup {"pop_first", "pop", "length", "end", "push_back"}
Releasing == {"release", "mark", "delete"}
Over == {"grab_dst", "push"} \cup Releasing

Frame == [pc : Bases \cup Over, q : Ids, nq : Ids, left : Int, new : Ids,
          dq : Ids, obj : Ids, src : Ids, ret : Bases \cup {"none"}]

(* What a thread does apart from the send or release in progress *)
Base(f) == IF f.pc \in Over THEN f.ret ELSE f.pc

(* Which identifiers a frame holds at which step *)
Shaped(f) ==
    /\ Base(f) \in Bases
    /\ f.pc \in {"grab_dst", "push"} => f.ret \in CallRet
    /\ f.pc \in Releasing => f.ret \in ReleaseRet
    /\ Base(f) \in {"outside", "poll"} => f.q = NoCtx
    /\ Base(f) \notin {"outside", "poll", "drop"} => f.q # NoCtx
    /\ f.nq = NoCtx <=> Base(f) # "push_back"
    /\ f.dq = NoCtx <=> Base(f) # "drop"
    /\ f.new # NoCtx => Base(f) \in NewBase \cup {"retire", "mq_release"}
    /\ Base(f) \in NewBase => f.new # NoCtx
    /\ f.pc \in Releasing /\ f.ret = "mq_release" => f.new # NoCtx

(* Only a worker with a weight looks at the length. *)
Weighed(t, f) == f.pc = "length" => t \in Worker /\ Weight[t] \in Nat

Frames == /\ th \in [Thread -> Frame]
          /\ \A t \in Thread : Shaped(th[t]) /\ Weighed(t, th[t])

(* The mailboxes of a frame: Held *)
HeldBy(f) == ({f.q, f.nq, f.dq} \cup IF f.pc = "launched" THEN {} ELSE {f.new}) \ {NoCtx}

(* The references of a frame to a context, and their number: Holders *)
Grabbed(f, c) == f.obj = c /\ f.pc \in {"push", "release"}
Dispatched(f, c) == /\ f.q = c /\ f.pc # "grab"
                    /\ ~(f.pc = "mq_release" /\ f.new = NoCtx)
                    /\ ~(f.pc \in Releasing /\ f.ret = "grab")
Started(f, c) == f.new = c /\ Base(f) \in {"init", "retire"}

One(p) == IF p THEN 1 ELSE 0
Refs(f, c) == One(Grabbed(f, c)) + One(Dispatched(f, c)) + One(Started(f, c))

(* A step of one thread, and its effect on the references *)
Moved(t) == /\ th' \in [Thread -> Frame] /\ Shaped(th'[t]) /\ Weighed(t, th'[t])
            /\ \A u \in Thread \ {t} : th'[u] = th[u]

Balanced(t) == \A c \in Ctx : ref'[c] = ref[c] + (Refs(th'[t], c) - Refs(th[t], c))
                                              + (One(c \in registered') - One(c \in registered))

(* A thread keeps what it has, and dispatches nothing else. *)
Fixed(f, g) == f.q = g.q /\ f.nq = g.nq /\ f.dq = g.dq /\ f.new \in {g.new, NoCtx}
Keeps(t) == /\ HeldBy(th'[t]) = HeldBy(th[t]) /\ Fixed(th'[t], th[t])
            /\ \A c \in Ctx : Dispatched(th'[t], c) => Dispatched(th[t], c)

(* A thread takes a mailbox, or gives one away. *)
Takes(t, c) == c # NoCtx /\ HeldBy(th'[t]) = HeldBy(th[t]) \cup {c} /\ th'[t].dq = th[t].dq
Gives(t, c) == /\ c \in HeldBy(th[t]) /\ HeldBy(th'[t]) = HeldBy(th[t]) \ {c}
               /\ th'[t].dq \in {NoCtx, th[t].dq}

(* What the counts rest on, apart from the frames *)
Types == /\ born \subseteq Ctx /\ registered \subseteq born
         /\ ref \in [Ctx -> Int] /\ gq \in Seq(born)
-----------------------------------------------------------------------------
(* The invariants *)

(* Every reference is counted. *)
Counted == \A c \in Ctx : ref[c] = Cardinality(Holders(c))

(* Whom the count has left for ever: one that is not born, one whose        *)
(* deletion has begun, and it is deleted by one thread.                     *)
Dying(t) == th[t].pc \in {"mark", "delete"}

Dead ==
    /\ \A c \in Ctx \ born : ref[c] = 0
    /\ \A c \in release : c \in born /\ ref[c] = 0
    /\ freed \subseteq release
    /\ \A t \in Thread :
          /\ th[t].pc \in {"push"} \cup Releasing => th[t].obj \in born
          /\ Dying(t) => ref[th[t].obj] = 0 /\ th[t].obj \notin freed
          /\ th[t].pc = "mark" => th[t].obj \notin release
          /\ th[t].pc = "delete" => th[t].obj \in release
    /\ \A t, u \in Thread : Dying(t) /\ Dying(u) /\ th[t].obj = th[u].obj => t = u

(* The mailboxes that a queue or a thread has *)
Queued(s) == {s[i] : i \in DOMAIN s}
Once(s) == \A i, j \in DOMAIN s : s[i] = s[j] => i = j
Owned == Queued(gq) \cup UNION {HeldBy(th[t]) : t \in Thread}

(* Nobody shares a mailbox, and a thread has none in two places. *)
Separate(f) == f.q # NoCtx => f.q \notin {f.nq, f.new, f.dq}

Alone == /\ Once(gq)
         /\ \A t \in Thread : HeldBy(th[t]) \cap Queued(gq) = {}
         /\ \A t, u \in Thread : t # u => HeldBy(th[t]) \cap HeldBy(th[u]) = {}
         /\ \A t \in Thread : Separate(th[t])

(* A mailbox has an owner while it is scheduled, or released and not freed; *)
(* one with messages is scheduled.                                          *)
Owners ==
    /\ Alone
    /\ Owned = (in_global \cup release) \ qfreed
    /\ in_global \subseteq born /\ qfreed \subseteq release
    /\ \A t \in Thread : th[t].dq # NoCtx => th[t].dq \in release
    /\ mbox \in [Ctx -> Seq(Ids)]
    /\ \A c \in Ctx : mbox[c] # <<>> => c \in in_global

(* What is left of TypeOK *)
Numbers == /\ ready \subseteq born /\ ops \in 0 .. MaxOps
           /\ reserved \subseteq born /\ remote \in reserved \cup {NoCtx}
           /\ total = Cardinality((born \ freed) \ reserved)

(* A service that can be found and is not ready is still being launched,   *)
(* what is dispatched is ready, and the release of a launch is of its own. *)
Preparing(f, c) == f.new = c /\ Base(f) \in {"init", "retire", "set_init", "retire_new"}
OwnRelease(f) == f.pc \in Releasing /\ f.ret = "set_init" => f.obj = f.new

Ready ==
    /\ \A c \in registered \ ready : \E t \in Thread : Preparing(th[t], c)
    /\ \A t \in Thread, c \in Ctx : Dispatched(th[t], c) => c \in ready
    /\ \A t \in Thread : OwnRelease(th[t])

(* What every step preserves, apart from Ready *)
Core == Types /\ Frames /\ Counted /\ Dead /\ Owners /\ Numbers

IInv == Core /\ Ready

-----------------------------------------------------------------------------
(* Steps of one thread *)

(* A step that changes the frame of one thread *)
LEMMA MovedBy ==
    ASSUME Frames, NEW t \in Thread, NEW f \in Frame, th' = [th EXCEPT ![t] = f], Shaped(f), Weighed(t, f)
    PROVE  Moved(t) /\ th'[t] = f
BY DEF Frames, Moved

(* References that do not change in number *)
LEMMA Even ==
    ASSUME Types, NEW t \in Thread, NEW f, NEW g, th[t] = g, th'[t] = f, UNCHANGED <<ref, registered>>,
           \A c \in Ctx : Refs(f, c) = Refs(g, c)
    PROVE  Balanced(t)
<1> SUFFICES ASSUME NEW c \in Ctx
    PROVE  ref'[c] = ref[c] + (Refs(f, c) - Refs(g, c)) + (One(c \in registered') - One(c \in registered))
  BY DEF Balanced
<1>1. Refs(f, c) \in Int /\ ref[c] \in Int
  BY DEF Refs, One, Types
<1> QED  BY <1>1 DEF One

(* A thread goes on to another step of what it does. *)
Goes(t, pc, left) == th' = [th EXCEPT ![t].pc = pc, ![t].left = left]

(* A step inside a round moves one thread, and no reference. *)
LEMMA PcMoves ==
    ASSUME Types, Frames, NEW t \in Thread, NEW pc \in Bases, NEW left \in Int,
           Goes(t, pc, left), UNCHANGED <<ref, registered>>,
           pc = "length" => t \in Worker /\ Weight[t] \in Nat,
           \/ th[t].pc \in {"pop_first", "pop", "length", "callback", "end"}
              /\ pc \in {"pop_first", "pop", "length", "callback", "end"}
           \/ th[t].pc = "set_init" /\ pc = "push_new"
    PROVE  Moved(t) /\ Balanced(t) /\ Keeps(t) /\ th'[t].pc = pc
<1> DEFINE g == th[t]
           f == [g EXCEPT !.pc = pc, !.left = left]
<1>1. g \in Frame /\ Shaped(g) /\ th' = [th EXCEPT ![t] = f]
  BY DEF Frames, Goes
<1>2. f \in Frame /\ f.pc = pc
  BY <1>1 DEF Frame
<1>3. Shaped(f)
  BY <1>1 DEF Shaped, Frame, Base, Ids, Bases, Over, Releasing, NewBase, CallRet, ReleaseRet
<1>4. HeldBy(f) = HeldBy(g) /\ Fixed(f, g)
  BY <1>1 DEF Frame, HeldBy, Fixed
<1>5. \A c \in Ctx : Refs(f, c) = Refs(g, c) /\ (Dispatched(f, c) => Dispatched(g, c))
  <2> SUFFICES ASSUME NEW c \in Ctx PROVE Refs(f, c) = Refs(g, c) /\ (Dispatched(f, c) => Dispatched(g, c))
    OBVIOUS
  <2>1. Grabbed(f, c) = Grabbed(g, c) /\ Dispatched(f, c) = Dispatched(g, c) /\ Started(f, c) = Started(g, c)
    BY <1>1
       DEF Grabbed, Dispatched, Started, Shaped, Frame, Base, Ids, Bases, Over, Releasing, NewBase, CallRet,
           ReleaseRet
  <2> QED  BY <2>1 DEF Refs
<1>6. Weighed(t, f)
  BY <1>2 DEF Weighed
<1> HIDE DEF f
<1>7. Moved(t) /\ th'[t] = f
  BY <1>1, <1>2, <1>3, <1>6, MovedBy
<1> QED  BY <1>2, <1>4, <1>5, <1>7, Even DEF Keeps

(* The same for a step that changes neither mailboxes nor references *)
LEMMA QuietBy ==
    ASSUME Types, Frames, NEW t \in Thread, NEW f \in Frame, th' = [th EXCEPT ![t] = f], Shaped(f), f.pc # "length",
           UNCHANGED <<ref, registered>>, HeldBy(f) = HeldBy(th[t]), Fixed(f, th[t]),
           \A c \in Ctx : /\ Grabbed(f, c) = Grabbed(th[t], c)
                          /\ Dispatched(f, c) = Dispatched(th[t], c)
                          /\ Started(f, c) = Started(th[t], c)
    PROVE  Moved(t) /\ Balanced(t) /\ Keeps(t) /\ th'[t] = f
<1>1. Moved(t) /\ th'[t] = f
  BY MovedBy DEF Weighed
<1>2. \A c \in Ctx : Refs(f, c) = Refs(th[t], c)
  BY DEF Refs
<1> QED  BY <1>1, <1>2, Even DEF Keeps

(* skynet_context_push is called. *)
LEMMA CallSendMoves ==
    ASSUME Types, Frames, NEW t \in Thread, NEW dst \in Ids, NEW src \in Ids, NEW ret \in CallRet,
           CallSend(t, dst, src, ret), UNCHANGED <<ref, registered>>,
           \/ th[t].pc = ret
           \/ th[t].pc \in UserCode /\ ret = "retire"
    PROVE  Moved(t) /\ Balanced(t) /\ Keeps(t) /\ th'[t].pc = "grab_dst"
<1> DEFINE g == th[t]
           f == [g EXCEPT !.pc = "grab_dst", !.obj = dst, !.src = src, !.ret = ret]
<1>1. g \in Frame /\ Shaped(g) /\ th' = [th EXCEPT ![t] = f]
  BY DEF Frames, CallSend
<1>2. f \in Frame /\ f.pc = "grab_dst"
  <2>1. ret \in Bases \cup {"none"} /\ "grab_dst" \in Bases \cup Over
    BY DEF Bases, ReleaseRet, Over
  <2> QED  BY <1>1, <2>1 DEF Frame
<1>3. Shaped(f)
  <2>1. Base(f) = ret /\ Base(g) = g.pc
    BY <1>1 DEF UserCode, Base, Frame, Over, Releasing, CallRet
  <2> QED  BY <1>1, <2>1 DEF UserCode, Shaped, Frame, Bases, Over, Releasing, NewBase, CallRet, ReleaseRet
<1>4. HeldBy(f) = HeldBy(g) /\ Fixed(f, g)
  BY <1>1 DEF HeldBy, Frame, CallRet, UserCode, Fixed
<1>5. \A c \in Ctx : /\ Grabbed(f, c) = Grabbed(g, c)
                     /\ Dispatched(f, c) = Dispatched(g, c)
                     /\ Started(f, c) = Started(g, c)
  BY <1>1, CtxAssumption
     DEF Grabbed, Dispatched, Started, UserCode, Shaped, Frame, Base, Ids, Bases, Over, Releasing, NewBase,
         CallRet, ReleaseRet
<1> HIDE DEF f
<1> QED  BY <1>1, <1>2, <1>3, <1>4, <1>5, QuietBy

(* A send, retire or release is over that holds no reference. *)
LEMMA ResumeMoves ==
    ASSUME Types, Frames, NEW t \in Thread, NEW pc \in Bases, Resume(t, pc), UNCHANGED <<ref, registered>>,
           \/ th[t].pc \in {"grab_dst", "delete"} /\ pc = th[t].ret
           \/ th[t].pc = "delete" /\ th[t].ret = "set_init" /\ pc = "push_gone"
           \/ th[t].pc = "retire" /\ pc = IF th[t].new = NoCtx THEN "callback" ELSE "init"
           \/ th[t].pc = "retire_new" /\ pc = "mq_release"
    PROVE  Moved(t) /\ Balanced(t) /\ Keeps(t) /\ th'[t].pc = pc
<1> DEFINE g == th[t]
           f == [g EXCEPT !.pc = pc, !.obj = NoCtx, !.ret = "none", !.src = IF pc = "retire" THEN @ ELSE NoCtx]
<1>1. g \in Frame /\ Shaped(g) /\ th' = [th EXCEPT ![t] = f]
  BY DEF Frames, Resume
<1>2. f \in Frame /\ f.pc = pc /\ pc # "length"
  <2>1. pc # "length"
    BY <1>1 DEF Shaped, CallRet, ReleaseRet, Releasing
  <2>2. NoCtx \in Ids /\ (IF pc = "retire" THEN g.src ELSE NoCtx) \in Ids
    BY <1>1 DEF Frame, Ids
  <2>3. pc \in Bases \cup Over /\ "none" \in Bases \cup {"none"}
    OBVIOUS
  <2> QED  BY <1>1, <2>1, <2>2, <2>3 DEF Frame
<1>3. Shaped(f)
  BY <1>1 DEF Shaped, Frame, Base, Ids, Bases, Over, Releasing, NewBase, CallRet, ReleaseRet
<1>4. HeldBy(f) = HeldBy(g) /\ Fixed(f, g)
  BY <1>1 DEF HeldBy, Fixed, Shaped, Frame, Base, Ids, Bases, Over, Releasing, NewBase, CallRet, ReleaseRet
<1>5. \A c \in Ctx : /\ Grabbed(f, c) = Grabbed(g, c)
                     /\ Dispatched(f, c) = Dispatched(g, c)
                     /\ Started(f, c) = Started(g, c)
  BY <1>1, CtxAssumption
     DEF Grabbed, Dispatched, Started, Shaped, Frame, Base, Ids, Bases, Over, Releasing, NewBase, CallRet,
         ReleaseRet
<1> HIDE DEF f
<1> QED  BY <1>1, <1>2, <1>3, <1>4, <1>5, QuietBy

(* skynet_context_release is called: what is released was held before, by  *)
(* the launch, by the dispatcher or by the slot of the handle storage.     *)
LEMMA CallReleaseMoves ==
    ASSUME Types, Frames, NEW t \in Thread, NEW c \in Ctx, NEW ret \in ReleaseRet,
           CallRelease(t, c, ret), UNCHANGED ref,
           \/ /\ th[t].pc = "init" /\ c = th[t].new /\ ret \in {"set_init", "retire_new"}
              /\ UNCHANGED registered
           \/ th[t].pc = "end" /\ c = th[t].q /\ ret = "grab" /\ UNCHANGED registered
           \/ /\ c \in registered /\ registered' = registered \ {c}
              /\ \/ th[t].pc = "retire" /\ ret = IF th[t].new = NoCtx THEN "callback" ELSE "init"
                 \/ th[t].pc = "retire_new" /\ ret = "mq_release"
    PROVE  Moved(t) /\ Balanced(t) /\ Keeps(t) /\ th'[t].pc = "release" /\ th'[t].obj = c
<1> DEFINE g == th[t]
           f == [g EXCEPT !.pc = "release", !.obj = c, !.ret = ret]
<1>1. g \in Frame /\ Shaped(g) /\ th' = [th EXCEPT ![t] = f]
  BY DEF Frames, CallRelease
<1>2. f \in Frame /\ f.pc = "release" /\ f.obj = c
  <2>1. ret \in Bases \cup {"none"} /\ "release" \in Bases \cup Over
    BY DEF Bases, Over, Releasing
  <2>2. c \in Ids
    BY DEF Ids
  <2> QED  BY <1>1, <2>1, <2>2 DEF Frame
<1>3. Base(g) = g.pc /\ Base(f) = ret
  BY <1>1 DEF Base, Frame, Over, Releasing
<1>4. Shaped(f)
  BY <1>1, <1>3 DEF Shaped, Frame, Bases, Over, Releasing, NewBase, CallRet, ReleaseRet
<1>5. HeldBy(f) = HeldBy(g) /\ Fixed(f, g)
  BY <1>1 DEF HeldBy, Frame, Fixed
<1>6. ASSUME NEW d \in Ctx
      PROVE  ref'[d] = ref[d] + (Refs(f, d) - Refs(g, d)) + (One(d \in registered') - One(d \in registered))
             /\ (Dispatched(f, d) => Dispatched(g, d))
  <2>1. d # NoCtx /\ ref[d] \in Int
    BY CtxAssumption DEF Types
  <2>2. ~Grabbed(g, d) /\ (Grabbed(f, d) <=> d = c)
    BY <1>1 DEF Grabbed, Frame
  <2>3. CASE g.pc = "init"
    <3>1. (Started(g, d) <=> d = c) /\ ~Started(f, d) /\ Dispatched(f, d) = Dispatched(g, d)
      BY <1>1, <1>3, <2>3 DEF Started, Dispatched, Frame, Releasing
    <3> QED  BY <2>1, <2>2, <2>3, <3>1 DEF Refs, One
  <2>4. CASE g.pc = "end"
    <3>1. (Dispatched(g, d) <=> d = c) /\ ~Dispatched(f, d) /\ ~Started(f, d) /\ ~Started(g, d)
      BY <1>1, <1>3, <2>4 DEF Started, Dispatched, Frame, Releasing
    <3> QED  BY <2>1, <2>2, <2>4, <3>1 DEF Refs, One
  <2>5. CASE g.pc \in {"retire", "retire_new"}
    <3>1. Started(f, d) = Started(g, d) /\ Dispatched(f, d) = Dispatched(g, d)
      BY <1>1, <1>3, <2>1, <2>5 DEF Started, Dispatched, Frame, Releasing
    <3>2. (d \in registered' <=> d \in registered /\ d # c) /\ c \in registered
      BY <2>5
    <3> QED  BY <2>1, <2>2, <3>1, <3>2 DEF Refs, One
  <2> QED  BY <2>3, <2>4, <2>5
<1>7. Moved(t) /\ th'[t] = f
  BY <1>1, <1>2, <1>4, MovedBy DEF Weighed
<1> HIDE DEF f
<1> QED  BY <1>2, <1>5, <1>6, <1>7 DEF Balanced, Keeps

(* skynet_handle_grab of the destination *)
LEMMA SendGrabMoves ==
    ASSUME Types, Frames, NEW t \in Thread, SendGrab(t)
    PROVE  /\ Moved(t) /\ Balanced(t) /\ Keeps(t)
           /\ th[t].pc = "grab_dst" /\ th'[t].pc \notin Releasing
           /\ th'[t].pc = "push" => th'[t].obj \in registered /\ ref' = [ref EXCEPT ![th'[t].obj] = @ + 1]
           /\ th'[t].pc # "push" => UNCHANGED ref
<1> DEFINE g == th[t]
           f == [g EXCEPT !.pc = "push"]
<1>1. g \in Frame /\ Shaped(g) /\ g.pc = "grab_dst" /\ UNCHANGED registered
  BY DEF Frames, SendGrab, At, ctxVars, harborVars
<1>2. Base(g) = g.ret /\ g.ret \in CallRet
  BY <1>1 DEF Base, Over, Shaped
<1>3. CASE g.obj \in registered
  <2>1. th' = [th EXCEPT ![t] = f] /\ ref' = [ref EXCEPT ![g.obj] = @ + 1]
    BY <1>3 DEF SendGrab
  <2>2. f \in Frame /\ f.pc = "push" /\ f.obj = g.obj
    BY <1>1 DEF Frame, Over
  <2>3. Base(f) = g.ret
    BY <1>1 DEF Base, Over, Frame
  <2>4. Shaped(f)
    BY <1>1, <1>2, <2>3 DEF Shaped, Frame, Releasing, CallRet, NewBase
  <2>5. HeldBy(f) = HeldBy(g) /\ Fixed(f, g)
    BY <1>1 DEF HeldBy, Frame, Fixed
  <2>6. ASSUME NEW d \in Ctx
        PROVE  ref'[d] = ref[d] + (Refs(f, d) - Refs(g, d)) + (One(d \in registered') - One(d \in registered))
               /\ (Dispatched(f, d) => Dispatched(g, d))
    <3>1. ref[d] \in Int /\ g.obj \in Ctx /\ ref'[d] = ref[d] + One(d = g.obj)
      BY <1>3, <2>1 DEF Types, One
    <3>2. ~Grabbed(g, d) /\ (Grabbed(f, d) <=> d = g.obj)
      BY <1>1 DEF Grabbed, Frame
    <3>3. Started(f, d) = Started(g, d) /\ Dispatched(f, d) = Dispatched(g, d)
      BY <1>1, <1>2, <2>3 DEF Started, Dispatched, Frame, Releasing
    <3> QED  BY <1>1, <3>1, <3>2, <3>3 DEF Refs, One
  <2>7. Moved(t) /\ th'[t] = f
    BY <2>1, <2>2, <2>4, MovedBy DEF Weighed
  <2> HIDE DEF f
  <2> QED  BY <1>1, <1>3, <2>1, <2>2, <2>5, <2>6, <2>7 DEF Balanced, Keeps, Releasing
<1>4. CASE g.obj \notin registered
  <2>1. Resume(t, g.ret) /\ UNCHANGED ref
    BY <1>4 DEF SendGrab
  <2>2. g.ret \in Bases /\ g.ret \notin Releasing \cup {"push"}
    BY <1>2 DEF CallRet, ReleaseRet, Bases, Releasing
  <2> QED  BY <1>1, <2>1, <2>2, ResumeMoves
<1> QED  BY <1>3, <1>4

(* skynet_mq_push *)
LEMMA SendPushMoves ==
    ASSUME Types, Frames, NEW t \in Thread, SendPush(t)
    PROVE  /\ Moved(t) /\ Balanced(t) /\ Keeps(t)
           /\ th[t].pc = "push" /\ th'[t].pc = "release" /\ th'[t].obj = th[t].obj
<1> DEFINE g == th[t]
           f == [g EXCEPT !.pc = "release"]
<1>1. g \in Frame /\ Shaped(g) /\ g.pc = "push" /\ UNCHANGED <<ref, registered>> /\ th' = [th EXCEPT ![t] = f]
  BY DEF Frames, SendPush, At, ctxVars, harborVars
<1>2. f \in Frame /\ f.pc = "release" /\ f.obj = g.obj
  BY <1>1 DEF Frame, Over, Releasing
<1>3. Base(f) = g.ret /\ Base(g) = g.ret /\ g.ret \in CallRet
  BY <1>1 DEF Base, Over, Frame, Releasing, Shaped
<1>4. Shaped(f)
  BY <1>1, <1>3 DEF Shaped, Frame, CallRet, ReleaseRet
<1>5. HeldBy(f) = HeldBy(g) /\ Fixed(f, g)
  BY <1>1 DEF HeldBy, Frame, Fixed
<1>6. \A c \in Ctx : /\ Grabbed(f, c) = Grabbed(g, c)
                     /\ Dispatched(f, c) = Dispatched(g, c)
                     /\ Started(f, c) = Started(g, c)
  BY <1>1, <1>3 DEF Grabbed, Dispatched, Started, Frame, Releasing, CallRet
<1> HIDE DEF f
<1> QED  BY <1>1, <1>2, <1>4, <1>5, <1>6, QuietBy

(* ATOM_FDEC(&ctx->ref), that finds 1 or more *)
LEMMA ReleaseMoves ==
    ASSUME Types, Frames, NEW t \in Thread, Release(t), th[t].obj \in Ctx
    PROVE  /\ Moved(t) /\ Balanced(t) /\ Keeps(t)
           /\ th[t].pc = "release" /\ ref' = [ref EXCEPT ![th[t].obj] = @ - 1]
           /\ IF ref[th[t].obj] = 1 THEN th'[t].pc = "mark" /\ th'[t].obj = th[t].obj
              ELSE th'[t].pc \notin Over
<1> DEFINE g == th[t]
           f == IF ref[g.obj] = 1 THEN [g EXCEPT !.pc = "mark"]
                ELSE [g EXCEPT !.pc = g.ret, !.obj = NoCtx, !.ret = "none",
                               !.src = IF g.ret = "retire" THEN @ ELSE NoCtx]
<1>1. /\ g \in Frame /\ Shaped(g) /\ g.pc = "release" /\ UNCHANGED registered
      /\ ref' = [ref EXCEPT ![g.obj] = @ - 1] /\ th' = [th EXCEPT ![t] = f]
  BY DEF Frames, Release, At, Resume
<1>2. Base(g) = g.ret /\ g.ret \in ReleaseRet
  BY <1>1 DEF Base, Over, Frame, Releasing, Shaped
<1>3. ReleaseRet \cap Over = {} /\ ReleaseRet \subseteq Bases
  BY DEF ReleaseRet, CallRet, Over, Releasing, Bases
<1>4. f \in Frame
  BY <1>1, <1>2, <1>3, ZenonT(30) DEF Frame, Over, Releasing, Ids
<1>5. Base(f) = g.ret /\ IF ref[g.obj] = 1 THEN f.pc = "mark" /\ f.obj = g.obj
                         ELSE f.pc = g.ret /\ f.pc \notin Over
  BY <1>1, <1>2, <1>3 DEF Base, Over, Releasing, Frame
<1>6. Shaped(f)
  <2>1. f.q = g.q /\ f.nq = g.nq /\ f.dq = g.dq /\ f.new = g.new
    BY <1>1 DEF Frame
  <2>2. CASE ref[g.obj] = 1
    BY <1>1, <1>2, <1>5, <2>1, <2>2 DEF Shaped, Frame, Releasing
  <2>3. CASE ref[g.obj] # 1
    BY <1>1, <1>2, <1>3, <1>5, <2>1, <2>3 DEF Shaped, Over
  <2> QED  BY <2>2, <2>3
<1>7. HeldBy(f) = HeldBy(g) /\ Fixed(f, g)
  BY <1>1, <1>2 DEF HeldBy, Frame, ReleaseRet, CallRet, Fixed
<1>8. ASSUME NEW d \in Ctx
      PROVE  ref'[d] = ref[d] + (Refs(f, d) - Refs(g, d)) + (One(d \in registered') - One(d \in registered))
             /\ (Dispatched(f, d) => Dispatched(g, d))
  <2>1. ref[d] \in Int /\ ref'[d] = ref[d] - One(d = g.obj) /\ d # NoCtx
    BY <1>1, CtxAssumption DEF Types, One
  <2>2. (Grabbed(g, d) <=> d = g.obj) /\ ~Grabbed(f, d)
    BY <1>1, <1>2, <1>5 DEF Grabbed, Frame, ReleaseRet, CallRet
  <2>3. f.q = g.q /\ f.new = g.new
    BY <1>1 DEF Frame
  <2>4. Started(f, d) = Started(g, d)
    BY <1>2, <1>5, <2>3 DEF Started
  <2>5. Dispatched(f, d) = Dispatched(g, d)
    BY <1>1, <1>2, <1>5, <2>1, <2>3 DEF Dispatched, Releasing, Over, Shaped
  <2> QED  BY <1>1, <2>1, <2>2, <2>4, <2>5 DEF Refs, One
<1>9. Moved(t) /\ th'[t] = f
  <2>1. f.pc # "length"
    BY <1>2, <1>5 DEF ReleaseRet, CallRet
  <2> QED  BY <1>1, <1>4, <1>6, <2>1, MovedBy, ZenonT(30) DEF Weighed
<1> HIDE DEF f
<1> QED  BY <1>1, <1>5, <1>7, <1>8, <1>9 DEF Balanced, Keeps

(* skynet_mq_mark_release *)
LEMMA MarkReleaseMoves ==
    ASSUME Types, Frames, NEW t \in Thread, MarkRelease(t) 
    PROVE  /\ Moved(t) /\ Balanced(t) /\ Keeps(t)
           /\ th[t].pc = "mark" /\ th'[t].pc = "delete" /\ th'[t].obj = th[t].obj
<1> DEFINE g == th[t]
           f == [g EXCEPT !.pc = "delete"]
<1>1. g \in Frame /\ Shaped(g) /\ g.pc = "mark" /\ UNCHANGED <<ref, registered>> /\ th' = [th EXCEPT ![t] = f]
  BY DEF Frames, MarkRelease, At, ctxVars, harborVars
<1>2. f \in Frame /\ f.pc = "delete" /\ f.obj = g.obj
  BY <1>1 DEF Frame, Over, Releasing
<1>3. Base(f) = g.ret /\ Base(g) = g.ret
  BY <1>1 DEF Base, Over, Frame, Releasing
<1>4. Shaped(f)
  BY <1>1, <1>3 DEF Shaped, Frame, Releasing
<1>5. HeldBy(f) = HeldBy(g) /\ Fixed(f, g)
  BY <1>1 DEF HeldBy, Frame, Fixed
<1>6. \A c \in Ctx : /\ Grabbed(f, c) = Grabbed(g, c)
                     /\ Dispatched(f, c) = Dispatched(g, c)
                     /\ Started(f, c) = Started(g, c)
  BY <1>1, <1>3 DEF Grabbed, Dispatched, Started, Frame, Releasing
<1> HIDE DEF f
<1> QED  BY <1>1, <1>2, <1>4, <1>5, <1>6, QuietBy

(* The end of delete_context *)
LEMMA DeleteContextMoves ==
    ASSUME Types, Frames, NEW t \in Thread, DeleteContext(t)
    PROVE  Moved(t) /\ Balanced(t) /\ Keeps(t) /\ th[t].pc = "delete" /\ th'[t].pc \notin Over
<1> DEFINE pc == IF th[t].ret = "set_init" THEN "push_gone" ELSE th[t].ret
<1>1. th[t].pc = "delete" /\ Shaped(th[t]) /\ UNCHANGED <<ref, registered>> /\ Resume(t, pc)
  BY DEF Frames, DeleteContext, At
<1>2. th[t].ret \in ReleaseRet
  BY <1>1 DEF Shaped, Releasing
<1>3. pc \in Bases /\ pc \notin Over
  BY <1>2 DEF ReleaseRet, CallRet, Bases, NewBase, Over, Releasing
<1> QED  BY <1>1, <1>3, ResumeMoves

(* skynet_handle_retire: the reference of the slot becomes the thread's. *)
LEMMA RetireMoves ==
    ASSUME Types, Frames, NEW t \in Thread, Retire(t) \/ RetireNew(t)
    PROVE  /\ Moved(t) /\ Balanced(t) /\ Keeps(t) /\ UNCHANGED ref
           /\ th[t].pc \in {"retire", "retire_new"}
           /\ \/ registered' = registered /\ th'[t].pc \notin Over
              \/ /\ th'[t].pc = "release" /\ th'[t].obj \in registered
                 /\ registered' = registered \ {th'[t].obj}
<1> DEFINE c == IF th[t].pc = "retire" THEN th[t].src ELSE th[t].new
           ret == IF th[t].pc = "retire" THEN IF th[t].new = NoCtx THEN "callback" ELSE "init" ELSE "mq_release"
<1>1. th[t].pc \in {"retire", "retire_new"} /\ RetireThen(t, c, ret)
  BY DEF Retire, RetireNew, At
<1>2. ref' = ref /\ registered' = registered \ {c}
  BY <1>1 DEF RetireThen
<1>3. ret \in Bases /\ ret \notin Over /\ ret \in ReleaseRet
  BY DEF Bases, ReleaseRet, CallRet, Over, Releasing
<1>4. CASE c \in registered
  <2>1. CallRelease(t, c, ret) /\ c \in Ctx
    BY <1>1, <1>4 DEF RetireThen, Types
  <2> HIDE DEF c
  <2>2. \/ th[t].pc = "retire" /\ ret = IF th[t].new = NoCtx THEN "callback" ELSE "init"
        \/ th[t].pc = "retire_new" /\ ret = "mq_release"
    BY <1>1
  <2> QED  BY <1>1, <1>2, <1>3, <1>4, <2>1, <2>2, CallReleaseMoves
<1>5. CASE c \notin registered
  <2>1. Resume(t, ret) /\ UNCHANGED registered
    BY <1>1, <1>2, <1>5 DEF RetireThen
  <2>2. \/ th[t].pc = "retire" /\ ret = IF th[t].new = NoCtx THEN "callback" ELSE "init"
        \/ th[t].pc = "retire_new" /\ ret = "mq_release"
    BY <1>1
  <2> QED  BY <1>1, <1>2, <1>3, <2>1, <2>2, ResumeMoves
<1> QED  BY <1>4, <1>5

(* The code of a service sends or kills, another thread sends, or the      *)
(* sender of a dropped message is told.                                    *)
LEMMA UserMoves ==
    ASSUME Types, Frames, mbox \in [Ctx -> Seq(Ids)], NEW t \in Thread,
           UserSend(t) \/ UserKill(t) \/ OutsiderSend(t) \/ DropMessage(t)
    PROVE  Moved(t) /\ Balanced(t) /\ Keeps(t) /\ th[t].pc \notin Over /\ th'[t].pc \in {"grab_dst", "retire"}
<1> DEFINE g == th[t]
<1>1. g \in Frame /\ Shaped(g) /\ UNCHANGED <<ref, registered>> /\ born \subseteq Ids
  BY DEF Frames, UserSend, UserKill, OutsiderSend, DropMessage, ctxVars, harborVars, Ids, Types
<1>2. CASE UserSend(t)
  <2>1. PICK dst \in born : CallSend(t, dst, Self(t), g.pc)
    BY <1>2 DEF UserSend
  <2>2. g.pc \in UserCode /\ g.pc \in CallRet /\ g.pc \notin Over
    BY <1>2 DEF UserSend, CanCall, UserCode, CallRet, Over, Releasing
  <2>3. Self(t) \in Ids /\ dst \in Ids
    BY <1>1 DEF Self, Frame
  <2> QED  BY <1>1, <2>1, <2>2, <2>3, CallSendMoves
<1>3. CASE OutsiderSend(t)
  <2>1. PICK dst \in born : CallSend(t, dst, NoCtx, "outside")
    BY <1>3 DEF OutsiderSend
  <2>2. g.pc = "outside" /\ "outside" \in CallRet /\ g.pc \notin Over
    BY <1>3 DEF OutsiderSend, At, CallRet, Over, Releasing
  <2> QED  BY <1>1, <2>1, <2>2, CallSendMoves DEF Ids
<1>4. CASE DropMessage(t)
  <2>1. g.pc = "drop" /\ "drop" \in CallRet /\ g.pc \notin Over
    BY <1>4 DEF DropMessage, At, CallRet, Over, Releasing
  <2>2. g.dq \in Ctx
    BY <1>1, <2>1 DEF Frame, Ids, Shaped, Base
  <2>3. mbox[g.dq] \in Seq(Ids) /\ mbox[g.dq] # <<>> /\ CallSend(t, Head(mbox[g.dq]), g.dq, "drop")
    BY <1>4, <2>2 DEF DropMessage
  <2>4. Head(mbox[g.dq]) \in Ids /\ g.dq \in Ids
    BY <2>2, <2>3 DEF Ids
  <2> QED  BY <1>1, <2>1, <2>3, <2>4, CallSendMoves
<1>5. CASE UserKill(t) /\ MonitorExit # NoCtx
  <2>1. PICK victim \in born : CallSend(t, MonitorExit, victim, "retire")
    BY <1>5 DEF UserKill
  <2>2. g.pc \in UserCode /\ "retire" \in CallRet /\ g.pc \notin Over
    BY <1>5 DEF UserKill, CanCall, UserCode, CallRet, Over, Releasing
  <2>3. MonitorExit \in Ids /\ victim \in Ids
    BY <1>1, CtxAssumption DEF Ids
  <2> QED  BY <1>1, <2>1, <2>2, <2>3, CallSendMoves
<1>6. CASE UserKill(t) /\ MonitorExit = NoCtx
  <2>1. PICK victim \in born : th' = [th EXCEPT ![t].pc = "retire", ![t].src = victim]
    BY <1>6 DEF UserKill
  <2> DEFINE f == [g EXCEPT !.pc = "retire", !.src = victim]
  <2>2. g.pc \in UserCode /\ g.pc \notin Over /\ victim \in Ids
    BY <1>1, <1>6 DEF UserKill, CanCall, UserCode, Over, Releasing
  <2>3. f \in Frame /\ f.pc = "retire" /\ th' = [th EXCEPT ![t] = f]
    BY <1>1, <2>1, <2>2 DEF Frame, Frames, Bases, ReleaseRet, CallRet
  <2>4. Base(g) = g.pc /\ Base(f) = "retire"
    BY <2>2, <2>3 DEF Base, Over, Releasing
  <2>5. Shaped(f)
    BY <1>1, <2>2, <2>4 DEF Shaped, Frame, Bases, ReleaseRet, CallRet, Releasing, NewBase, UserCode
  <2>6. HeldBy(f) = HeldBy(g) /\ Fixed(f, g)
    BY <1>1, <2>2 DEF HeldBy, Fixed, Frame, UserCode
  <2>7. \A c \in Ctx : /\ Grabbed(f, c) = Grabbed(g, c)
                       /\ Dispatched(f, c) = Dispatched(g, c)
                       /\ Started(f, c) = Started(g, c)
    <3> SUFFICES ASSUME NEW c \in Ctx
        PROVE Grabbed(f, c) = Grabbed(g, c) /\ Dispatched(f, c) = Dispatched(g, c) /\ Started(f, c) = Started(g, c)
      OBVIOUS
    <3>1. f.new = g.new /\ (g.pc = "callback" => g.new = NoCtx) /\ c # NoCtx
      BY <1>1, <2>4, CtxAssumption DEF Frame, Shaped, NewBase
    <3>2. Started(f, c) = Started(g, c)
      BY <2>2, <2>4, <3>1 DEF Started, UserCode
    <3> QED  BY <1>1, <2>2, <3>2 DEF Grabbed, Dispatched, Frame, UserCode, Releasing
  <2> HIDE DEF f
  <2>8. Moved(t) /\ Balanced(t) /\ Keeps(t) /\ th'[t] = f
    BY <1>1, <2>3, <2>5, <2>6, <2>7, QuietBy
  <2> QED  BY <2>2, <2>3, <2>8
<1> QED  BY <1>2, <1>3, <1>4, <1>5, <1>6

(* 2 to the weight is a positive number. *)
LEMMA PowerNat == ASSUME NEW w \in Nat PROVE 2 ^ w \in Nat \ {0}
<1>1. IsFiniteSet(1 .. w) /\ Cardinality(1 .. w) = w
  BY FS_Interval
<1>2. IsFiniteSet(SUBSET (1 .. w)) /\ Cardinality(SUBSET (1 .. w)) = 2 ^ w
  BY <1>1, FS_SUBSET
<1>3. SUBSET (1 .. w) # {}
  OBVIOUS
<1> QED  BY <1>2, <1>3, FS_EmptySet, FS_CardinalityType

(* The steps of a round that leave mailboxes and references alone *)
LEMMA RoundMoves ==
    ASSUME Types, Frames, mbox \in [Ctx -> Seq(Ids)], NEW t \in Thread,
           SetInit(t) \/ (t \in Worker /\ PopMessage(t)) \/ Length(t) \/ CallbackReturns(t)
    PROVE  Moved(t) /\ Balanced(t) /\ Keeps(t) /\ th[t].pc \notin Over /\ th'[t].pc \notin Over
<1> DEFINE g == th[t]
<1>1. g \in Frame /\ Shaped(g) /\ Weighed(t, g) /\ UNCHANGED <<ref, registered>>
  BY DEF Frames, SetInit, PopMessage, Length, CallbackReturns, ctxVars, harborVars
<1>2. {"pop_first", "pop", "length", "callback", "end", "set_init", "push_new"} \subseteq Bases \ Over
  BY DEF Bases, ReleaseRet, CallRet, NewBase, Over, Releasing
<1>3. g.left \in Int /\ \A pc \in Bases : [g EXCEPT !.pc = pc] = [g EXCEPT !.pc = pc, !.left = g.left]
  BY <1>1 DEF Frame
<1>4. CASE SetInit(t)
  <2>1. g.pc = "set_init" /\ Goes(t, "push_new", g.left)
    BY <1>2, <1>3, <1>4 DEF SetInit, At, Goes
  <2> QED  BY <1>1, <1>2, <1>3, <2>1, PcMoves
<1>5. CASE t \in Worker /\ PopMessage(t)
  <2>1. g.pc \in {"pop_first", "pop"} /\ Weight[t] \in {-1} \cup Nat
    BY <1>5, ThreadAssumption DEF PopMessage
  <2>2. CASE At(t, "pop_first") /\ Weight[t] >= 0
    <3>1. Goes(t, "length", g.left)
      BY <1>2, <1>3, <1>5, <2>2 DEF PopMessage, Goes
    <3>2. Weight[t] \in Nat
      BY <2>1, <2>2
    <3> QED  BY <1>1, <1>2, <1>3, <1>5, <2>1, <3>1, <3>2, PcMoves, ZenonT(30)
  <2>3. CASE ~(At(t, "pop_first") /\ Weight[t] >= 0)
    <3> DEFINE n == IF At(t, "pop") THEN g.left - 1 ELSE 0
    <3>1. n \in Int
      BY <1>1 DEF Frame
    <3>2. Goes(t, "callback", n)
      BY <1>5, <2>3 DEF PopMessage, Goes
    <3> HIDE DEF n
    <3> QED  BY <1>1, <1>2, <2>1, <3>1, <3>2, PcMoves
  <2> QED  BY <2>2, <2>3
<1>6. CASE Length(t)
  <2> DEFINE n == Len(mbox[g.q]) \div 2 ^ Weight[t]
             m == IF n > 0 THEN n - 1 ELSE 0
  <2>1. g.pc = "length" /\ Goes(t, "callback", m)
    BY <1>6 DEF Length, At, Goes
  <2>2. g.q \in Ctx
    BY <1>1, <2>1 DEF Frame, Ids, Shaped, Base, Over, Releasing
  <2>3. Len(mbox[g.q]) \in Nat /\ 2 ^ Weight[t] \in Nat \ {0}
    BY <1>1, <2>1, <2>2, PowerNat DEF Weighed
  <2>4. n \in Int
    BY <2>3
  <2>5. m \in Int
    BY <2>4
  <2> HIDE DEF m
  <2> QED  BY <1>1, <1>2, <2>1, <2>5, PcMoves
<1>7. CASE CallbackReturns(t)
  <2> DEFINE pc == IF g.left > 0 THEN "pop" ELSE "end"
  <2>1. g.pc = "callback" /\ th' = [th EXCEPT ![t].pc = pc] /\ pc \in {"pop", "end"}
    BY <1>7 DEF CallbackReturns, At
  <2> HIDE DEF pc
  <2>2. Goes(t, pc, g.left)
    BY <1>2, <1>3, <2>1 DEF Goes
  <2> QED  BY <1>1, <1>2, <1>3, <2>1, <2>2, PcMoves, ZenonT(30)
<1> QED  BY <1>4, <1>5, <1>6, <1>7

(* Steps that move mailboxes and leave every reference with its holder *)
LEMMA ShiftBy ==
    ASSUME Types, Frames, NEW t \in Thread, NEW f \in Frame, th' = [th EXCEPT ![t] = f], Shaped(f),
           f.pc # "length", UNCHANGED <<ref, registered>>,
           \A c \in Ctx : Refs(f, c) = Refs(th[t], c)
    PROVE  Moved(t) /\ Balanced(t) /\ th'[t] = f
<1>1. Moved(t) /\ th'[t] = f
  BY MovedBy DEF Weighed
<1> QED  BY <1>1, Even

(* The end of a launch *)
LEMMA LaunchMoves ==
    ASSUME Types, Frames, NEW t \in Thread, Separate(th[t]),
           InitSucceeds(t) \/ InitFails(t) \/ Launched(t)
    PROVE  /\ Moved(t) /\ Balanced(t) /\ Keeps(t) /\ ref' = ref /\ th[t].pc \notin Over
           /\ \/ th'[t].pc \notin Over
              \/ th'[t].pc = "release" /\ th'[t].obj \in HeldBy(th[t])
<1> DEFINE g == th[t]
<1>1. g \in Frame /\ Shaped(g) /\ UNCHANGED <<ref, registered>>
  BY DEF Frames, InitSucceeds, InitFails, Launched, ctxVars, harborVars
<1>2. CASE InitSucceeds(t) \/ InitFails(t)
  <2>1. PICK ret \in {"set_init", "retire_new"} : CallRelease(t, g.new, ret)
    BY <1>2 DEF InitSucceeds, InitFails
  <2>2. g.pc = "init" /\ g.pc \notin Over /\ ret \in ReleaseRet
    BY <1>2 DEF InitSucceeds, InitFails, At, ReleaseRet, Over, Releasing
  <2>3. g.new \in Ctx /\ g.new \in HeldBy(g)
    BY <1>1, <2>2 DEF Frame, Ids, Shaped, Base, Over, Releasing, NewBase, HeldBy
  <2>4. Moved(t) /\ Balanced(t) /\ Keeps(t) /\ th'[t].pc = "release" /\ th'[t].obj = g.new
    BY <1>1, <2>1, <2>2, <2>3, CallReleaseMoves
  <2> QED  BY <1>1, <2>2, <2>3, <2>4
<1>3. CASE Launched(t)
  <2> DEFINE f == [g EXCEPT !.pc = "callback", !.new = NoCtx]
  <2>1. g.pc = "launched" /\ th' = [th EXCEPT ![t] = f]
    BY <1>3 DEF Launched, At, Frames
  <2>2. f \in Frame /\ f.pc = "callback" /\ f.new = NoCtx
    BY <1>1, ZenonT(30) DEF Frame, Ids, Bases, ReleaseRet, CallRet
  <2>3. Base(g) = "launched" /\ Base(f) = "callback"
    BY <2>1, <2>2 DEF Base, Over, Releasing
  <2>4. Shaped(f)
    BY <1>1, <2>1, <2>2, <2>3 DEF Shaped, Frame, Bases, ReleaseRet, CallRet, Releasing, NewBase
  <2>5. HeldBy(f) = HeldBy(g) /\ Fixed(f, g)
    BY <1>1, <2>1 DEF HeldBy, Fixed, Frame
  <2>6. \A c \in Ctx : /\ Grabbed(f, c) = Grabbed(g, c)
                       /\ Dispatched(f, c) = Dispatched(g, c)
                       /\ Started(f, c) = Started(g, c)
    BY <1>1, <2>1, <2>2, <2>3 DEF Grabbed, Dispatched, Started, Frame, Releasing
  <2> HIDE DEF f
  <2>7. Moved(t) /\ Balanced(t) /\ Keeps(t) /\ th'[t] = f
    BY <1>1, <2>1, <2>2, <2>4, <2>5, <2>6, QuietBy
  <2>8. g.pc \notin Over /\ f.pc \notin Over
    BY <2>1, <2>2 DEF Over, Releasing
  <2> QED  BY <1>1, <2>7, <2>8
<1> QED  BY <1>2, <1>3

(* A worker takes the head of the global queue, for this round or the next. *)
LEMMA TakeMoves ==
    ASSUME Types, Frames, NEW t \in Thread, NEW c \in Ctx, c \notin HeldBy(th[t]),
           \/ th[t].pc = "poll" /\ th' = [th EXCEPT ![t].pc = "grab", ![t].q = c]
           \/ th[t].pc = "end" /\ th' = [th EXCEPT ![t].pc = "push_back", ![t].nq = c],
           UNCHANGED <<ref, registered>>
    PROVE  /\ Moved(t) /\ Balanced(t) /\ Takes(t, c) /\ Separate(th'[t])
           /\ th[t].pc \notin Over /\ th'[t].pc \notin Over
           /\ \A d \in Ctx : Dispatched(th'[t], d) => Dispatched(th[t], d)
<1> DEFINE g == th[t]
           f == IF g.pc = "poll" THEN [g EXCEPT !.pc = "grab", !.q = c] ELSE [g EXCEPT !.pc = "push_back", !.nq = c]
<1>1. g \in Frame /\ Shaped(g) /\ g.pc \in {"poll", "end"} /\ c \in Ids /\ c # NoCtx
  BY CtxAssumption DEF Frames, Ids
<1>2. th' = [th EXCEPT ![t] = f]
  BY DEF Frames
<1>3. /\ f.dq = g.dq /\ f.new = g.new /\ f.obj = g.obj /\ f.src = g.src /\ f.ret = g.ret /\ f.left = g.left
      /\ IF g.pc = "poll" THEN f.pc = "grab" /\ f.q = c /\ f.nq = g.nq
                          ELSE f.pc = "push_back" /\ f.q = g.q /\ f.nq = c
  BY <1>1 DEF Frame
<1>4. f \in Frame
  <2>1. {"grab", "push_back"} \subseteq Bases \cup Over
    BY DEF Bases, ReleaseRet
  <2> QED  BY <1>1, <2>1 DEF Frame
<1>5. Base(g) = g.pc /\ Base(f) = f.pc /\ g.pc \notin Over /\ f.pc \notin Over
  BY <1>1, <1>3 DEF Base, Over, Releasing
<1> HIDE DEF f
<1>6. Shaped(f)
  BY <1>1, <1>3, <1>5 DEF Shaped, Bases, ReleaseRet, Releasing, NewBase
<1>7. g.nq = NoCtx /\ g.dq = NoCtx /\ g.new = NoCtx /\ (g.pc = "poll" => g.q = NoCtx)
  BY <1>1, <1>5 DEF Shaped, NewBase
<1>8. HeldBy(f) = HeldBy(g) \cup {c} /\ Separate(f)
  <2>1. CASE g.pc = "poll"
    BY <1>1, <1>3, <1>7, <2>1 DEF HeldBy, Separate
  <2>2. CASE g.pc = "end"
    <3>1. c # g.q
      BY <1>1 DEF HeldBy
    <3> QED  BY <1>1, <1>3, <1>7, <2>2, <3>1 DEF HeldBy, Separate
  <2> QED  BY <1>1, <2>1, <2>2
<1>9. \A d \in Ctx : Refs(f, d) = Refs(g, d) /\ (Dispatched(f, d) => Dispatched(g, d))
  <2> SUFFICES ASSUME NEW d \in Ctx PROVE Refs(f, d) = Refs(g, d) /\ (Dispatched(f, d) => Dispatched(g, d))
    OBVIOUS
  <2>1. Grabbed(f, d) = Grabbed(g, d) /\ Started(f, d) = Started(g, d)
    BY <1>1, <1>3, <1>5 DEF Grabbed, Started
  <2>2. Dispatched(f, d) = Dispatched(g, d)
    BY <1>1, <1>3, <1>7, CtxAssumption DEF Dispatched, Releasing
  <2> QED  BY <2>1, <2>2 DEF Refs
<1>10. f.pc # "length"
  BY <1>1, <1>3
<1>11. Moved(t) /\ Balanced(t) /\ th'[t] = f
  BY <1>2, <1>4, <1>6, <1>9, <1>10, ShiftBy
<1> QED  BY <1>1, <1>3, <1>5, <1>8, <1>9, <1>11 DEF Takes

(* skynet_handle_grab of the service whose mailbox was taken *)
LEMMA DispatchGrabMoves ==
    ASSUME Types, Frames, NEW t \in Thread, DispatchGrab(t)
    PROVE  /\ Moved(t) /\ Balanced(t) /\ HeldBy(th'[t]) = HeldBy(th[t]) /\ Fixed(th'[t], th[t])
           /\ th[t].pc = "grab" /\ th'[t].pc \notin Over
           /\ \/ ref' = ref
              \/ th[t].q \in registered /\ ref' = [ref EXCEPT ![th[t].q] = @ + 1]
           /\ \A c \in Ctx : Dispatched(th'[t], c) => c = th[t].q /\ c \in registered
<1> DEFINE g == th[t]
           f == [g EXCEPT !.pc = IF g.q \in registered THEN "pop_first" ELSE "mq_release"]
<1>1. g \in Frame /\ Shaped(g) /\ g.pc = "grab" /\ UNCHANGED registered
  BY DEF Frames, DispatchGrab, At
<1>2. th' = [th EXCEPT ![t] = f]
  BY DEF DispatchGrab
<1>3. /\ f.q = g.q /\ f.nq = g.nq /\ f.dq = g.dq /\ f.new = g.new /\ f.obj = g.obj /\ f.ret = g.ret
      /\ f.pc = IF g.q \in registered THEN "pop_first" ELSE "mq_release"
  BY <1>1 DEF Frame
<1>4. f \in Frame
  <2>1. {"pop_first", "mq_release"} \subseteq Bases \cup Over
    BY DEF Bases, ReleaseRet
  <2> QED  BY <1>1, <2>1 DEF Frame
<1>5. Base(g) = "grab" /\ Base(f) = f.pc /\ f.pc \notin Over /\ f.pc \notin Releasing
  BY <1>1, <1>3 DEF Base, Over, Releasing
<1> HIDE DEF f
<1>6. g.new = NoCtx
  BY <1>1, <1>5 DEF Shaped, NewBase
<1>7. Shaped(f)
  BY <1>1, <1>3, <1>5, <1>6 DEF Shaped, Bases, ReleaseRet, Releasing, NewBase
<1>8. HeldBy(f) = HeldBy(g) /\ Fixed(f, g)
  BY <1>1, <1>3 DEF HeldBy, Fixed
<1>9. ASSUME NEW d \in Ctx
      PROVE  ~Grabbed(f, d) /\ ~Started(f, d) /\ ~Grabbed(g, d) /\ ~Started(g, d) /\ ~Dispatched(g, d)
             /\ (Dispatched(f, d) <=> d = g.q /\ g.q \in registered)
  <2>1. ~Grabbed(f, d) /\ ~Started(f, d) /\ ~Grabbed(g, d) /\ ~Started(g, d) /\ ~Dispatched(g, d)
    BY <1>1, <1>3, <1>5 DEF Grabbed, Started, Dispatched, Over
  <2>2. Dispatched(f, d) <=> d = g.q /\ g.q \in registered
    BY <1>3, <1>5, <1>6 DEF Dispatched
  <2> QED  BY <2>1, <2>2
<1>10. ASSUME NEW d \in Ctx
       PROVE  ref'[d] = ref[d] + (Refs(f, d) - Refs(g, d)) + (One(d \in registered') - One(d \in registered))
  <2>1. ref[d] \in Int
    BY DEF Types
  <2>2. ref'[d] = ref[d] + One(d = g.q /\ g.q \in registered)
    BY <2>1 DEF DispatchGrab, Types, One
  <2>3. Refs(g, d) = 0 /\ Refs(f, d) = One(d = g.q /\ g.q \in registered)
    BY <1>9 DEF Refs, One
  <2> QED  BY <1>1, <2>1, <2>2, <2>3 DEF One
<1>11. Moved(t) /\ th'[t] = f
  BY <1>2, <1>3, <1>4, <1>7, MovedBy DEF Weighed
<1>12. ref' = ref \/ (g.q \in registered /\ ref' = [ref EXCEPT ![g.q] = @ + 1])
  <2>1. CASE g.q \in registered
    <3>1. ref' = [ref EXCEPT ![g.q] = @ + 1]
      BY <2>1 DEF DispatchGrab
    <3> QED  BY <2>1, <3>1
  <2>2. CASE g.q \notin registered
    BY <2>2 DEF DispatchGrab
  <2> QED  BY <2>1, <2>2
<1> QED  BY <1>1, <1>5, <1>8, <1>9, <1>10, <1>11, <1>12 DEF Balanced

(* A worker gives its mailbox up when it is empty, or puts it back; the    *)
(* reference goes with the release that follows.                           *)
LEMMA RoundEnds ==
    ASSUME Types, Frames, NEW t \in Thread, Separate(th[t]), PopEmpty(t) \/ PushBack(t)
    PROVE  /\ Moved(t) /\ Balanced(t) /\ Gives(t, th[t].q) /\ Separate(th'[t]) /\ UNCHANGED <<ref, registered>>
           /\ th[t].pc \notin Over /\ th'[t].pc = "release" /\ th'[t].obj = th[t].q
           /\ \A c \in Ctx : ~Dispatched(th'[t], c)
           /\ \A c \in Ctx : Dispatched(th[t], c) <=> c = th[t].q
<1> DEFINE g == th[t]
           back == g.pc = "push_back"
           f == [g EXCEPT !.pc = "release", !.obj = g.q, !.ret = IF back THEN "grab" ELSE "poll",
                          !.q = IF back THEN g.nq ELSE NoCtx, !.nq = IF back THEN NoCtx ELSE @]
<1>1. g \in Frame /\ Shaped(g) /\ g.pc \in {"pop_first", "pop", "push_back"} /\ UNCHANGED <<ref, registered>>
  BY DEF Frames, PopEmpty, PushBack, At, ctxVars, harborVars
<1>2. th' = [th EXCEPT ![t] = f]
  <2>1. CASE PopEmpty(t)
    <3>1. f = [g EXCEPT !.pc = "release", !.obj = g.q, !.ret = "poll", !.q = NoCtx]
      BY <1>1, <2>1 DEF PopEmpty, Frame
    <3> HIDE DEF f
    <3> QED  BY <2>1, <3>1 DEF PopEmpty
  <2>2. CASE PushBack(t)
    BY <2>2 DEF PushBack, At
  <2> QED  BY <2>1, <2>2
<1>3. /\ f.pc = "release" /\ f.obj = g.q /\ f.ret = (IF back THEN "grab" ELSE "poll")
      /\ f.q = (IF back THEN g.nq ELSE NoCtx) /\ f.nq = (IF back THEN NoCtx ELSE g.nq)
      /\ f.dq = g.dq /\ f.new = g.new
  BY <1>1 DEF Frame
<1>4. f \in Frame
  <2>1. "release" \in Bases \cup Over /\ {"grab", "poll"} \subseteq Bases \cup {"none"}
    BY DEF Bases, ReleaseRet, Over, Releasing
  <2>2. CASE back
    BY <1>1, <2>1, <2>2, ZenonT(30) DEF Frame, Ids
  <2>3. CASE ~back
    BY <1>1, <2>1, <2>3, ZenonT(30) DEF Frame, Ids
  <2> QED  BY <2>2, <2>3
<1>5. Base(g) = g.pc /\ Base(f) = f.ret /\ g.pc \notin Over
  BY <1>1, <1>3 DEF Base, Over, Releasing
<1> HIDE DEF f
<1>6. g.new = NoCtx /\ g.dq = NoCtx /\ g.q # NoCtx /\ (back <=> g.nq # NoCtx)
  BY <1>1, <1>5 DEF Shaped, NewBase
<1>7. Shaped(f)
  BY <1>1, <1>3, <1>5, <1>6 DEF Shaped, Bases, ReleaseRet, Releasing, NewBase
<1>8. th'[t] = f => Gives(t, g.q) /\ Separate(f)
  <2>1. HeldBy(g) = {g.q, g.nq} \ {NoCtx} /\ HeldBy(f) = (IF back THEN {g.nq} ELSE {}) \ {NoCtx}
    BY <1>1, <1>3, <1>6 DEF HeldBy
  <2>2. g.q # g.nq
    BY <1>6 DEF Separate
  <2> QED  BY <1>3, <1>6, <2>1, <2>2 DEF Gives, Separate
<1>9. ASSUME NEW c \in Ctx
      PROVE  /\ Dispatched(g, c) <=> c = g.q
             /\ ~Dispatched(f, c)
             /\ Refs(f, c) = Refs(g, c)
  <2>1. c # NoCtx
    BY CtxAssumption
  <2>2. ~Grabbed(g, c) /\ ~Started(g, c) /\ ~Started(f, c) /\ (Grabbed(f, c) <=> c = g.q)
    BY <1>1, <1>3, <1>5, <1>6, <2>1 DEF Grabbed, Started
  <2>3. (Dispatched(g, c) <=> c = g.q) /\ ~Dispatched(f, c)
    BY <1>1, <1>3, <1>6, <2>1 DEF Dispatched, Releasing
  <2> QED  BY <2>2, <2>3 DEF Refs, One
<1>10. Moved(t) /\ Balanced(t) /\ th'[t] = f
  BY <1>1, <1>2, <1>3, <1>4, <1>7, <1>9, ShiftBy
<1> QED  BY <1>1, <1>3, <1>5, <1>8, <1>9, <1>10

(* The mailbox that a step gives to the scheduler, or begins to empty *)
Given(f) == IF f.new # NoCtx THEN f.new ELSE f.q

(* skynet_mq_release *)
LEMMA MqReleaseMoves ==
    ASSUME Types, Frames, NEW t \in Thread, Separate(th[t]), MqRelease(t)
    PROVE  /\ Moved(t) /\ Balanced(t) /\ Separate(th'[t]) /\ UNCHANGED <<ref, registered>>
           /\ th[t].pc \notin Over /\ th'[t].pc \notin Over
           /\ IF Given(th[t]) \in release
              THEN HeldBy(th'[t]) = HeldBy(th[t]) /\ th'[t].dq = Given(th[t]) /\ gq' = gq
              ELSE Gives(t, Given(th[t])) /\ gq' = Append(gq, Given(th[t]))
           /\ \A c \in Ctx : Dispatched(th'[t], c) => Dispatched(th[t], c)
<1> DEFINE g == th[t]
           launch == g.new # NoCtx
           dead == Given(g) \in release
           f == [g EXCEPT !.new = NoCtx, !.q = IF launch THEN @ ELSE NoCtx,
                          !.pc = IF dead THEN "drop" ELSE IF launch THEN "callback" ELSE "poll",
                          !.dq = IF dead THEN Given(g) ELSE @]
<1>1. g \in Frame /\ Shaped(g) /\ g.pc = "mq_release" /\ UNCHANGED <<ref, registered>>
  BY DEF Frames, MqRelease, At, ctxVars, harborVars
<1>2. th' = [th EXCEPT ![t] = f] /\ gq' = IF dead THEN gq ELSE Append(gq, Given(g))
  <2>1. CASE dead
    BY <2>1 DEF MqRelease, Given, Frames
  <2>2. CASE ~dead
    <3>1. f = [g EXCEPT !.new = NoCtx, !.q = IF launch THEN @ ELSE NoCtx, !.pc = IF launch THEN "callback" ELSE "poll"]
      BY <1>1, <2>2 DEF Frame
    <3>2. th' = [th EXCEPT ![t] = [g EXCEPT !.new = NoCtx, !.q = IF launch THEN @ ELSE NoCtx, !.pc = IF launch THEN "callback" ELSE "poll"]]
      BY <2>2 DEF MqRelease, Given, Frames
    <3>3. gq' = Append(gq, Given(g))
      BY <2>2 DEF MqRelease, Given
    <3> HIDE DEF f
    <3> QED  BY <2>2, <3>1, <3>2, <3>3
  <2> QED  BY <2>1, <2>2
<1>3. /\ f.pc = (IF dead THEN "drop" ELSE IF launch THEN "callback" ELSE "poll")
      /\ f.q = (IF launch THEN g.q ELSE NoCtx) /\ f.nq = g.nq /\ f.new = NoCtx
      /\ f.dq = (IF dead THEN Given(g) ELSE g.dq) /\ f.obj = g.obj /\ f.ret = g.ret
  BY <1>1 DEF Frame
<1>4. f \in Frame
  <2>1. {"drop", "callback", "poll"} \subseteq Bases \cup Over
    BY DEF Bases, ReleaseRet, CallRet
  <2>2. Given(g) \in Ids
    BY <1>1 DEF Given, Frame
  <2> DEFINE pc == IF dead THEN "drop" ELSE IF launch THEN "callback" ELSE "poll"
             q == IF launch THEN g.q ELSE NoCtx
             dq == IF dead THEN Given(g) ELSE g.dq
  <2>3. pc \in Bases \cup Over /\ q \in Ids /\ dq \in Ids /\ NoCtx \in Ids
    BY <1>1, <2>1, <2>2 DEF Frame, Ids
  <2>4. f = [g EXCEPT !.new = NoCtx, !.q = q, !.pc = pc, !.dq = dq]
    OBVIOUS
  <2> HIDE DEF f, pc, q, dq
  <2> QED  BY <1>1, <2>3, <2>4 DEF Frame
<1>5. Base(g) = g.pc /\ Base(f) = f.pc /\ g.pc \notin Over /\ f.pc \notin Over
  BY <1>1, <1>3 DEF Base, Over, Releasing
<1> HIDE DEF f
<1>6. g.nq = NoCtx /\ g.dq = NoCtx /\ g.q # NoCtx
  BY <1>1, <1>5 DEF Shaped
<1>7. Given(g) # NoCtx /\ Given(g) \in HeldBy(g)
  BY <1>1, <1>6 DEF Given, HeldBy
<1>8. Shaped(f)
  BY <1>1, <1>3, <1>5, <1>6, <1>7 DEF Shaped, Bases, ReleaseRet, CallRet, Releasing, NewBase
<1>9. Separate(f) /\ HeldBy(f) = IF dead THEN HeldBy(g) ELSE HeldBy(g) \ {Given(g)}
  <2>1. HeldBy(g) = {g.q, g.new} \ {NoCtx} /\ HeldBy(f) = {f.q, f.dq} \ {NoCtx}
    BY <1>1, <1>3, <1>6 DEF HeldBy
  <2>2. g.q # g.new
    BY <1>6 DEF Separate
  <2> QED  BY <1>3, <1>6, <2>1, <2>2 DEF Given, Separate
<1>10. ASSUME NEW c \in Ctx
       PROVE  Refs(f, c) = Refs(g, c) /\ (Dispatched(f, c) => Dispatched(g, c))
  <2>1. c # NoCtx
    BY CtxAssumption
  <2>2. ~Grabbed(g, c) /\ ~Started(g, c) /\ ~Started(f, c) /\ ~Grabbed(f, c)
    BY <1>1, <1>3, <1>5 DEF Grabbed, Started
  <2>3. Dispatched(g, c) = Dispatched(f, c)
    BY <1>1, <1>3, <1>5, <2>1 DEF Dispatched, Releasing
  <2> QED  BY <2>2, <2>3 DEF Refs, One
<1>11. f.pc # "length"
  BY <1>3
<1>12. Moved(t) /\ Balanced(t) /\ th'[t] = f
  BY <1>1, <1>2, <1>4, <1>8, <1>10, <1>11, ShiftBy
<1> QED  BY <1>1, <1>2, <1>3, <1>5, <1>7, <1>9, <1>10, <1>12 DEF Gives

(* The mailbox of a dead service is empty, or a new one is scheduled. *)
LEMMA HandOver ==
    ASSUME Types, Frames, NEW t \in Thread, Separate(th[t]), DropDone(t) \/ PushNew(t)
    PROVE  /\ Moved(t) /\ Balanced(t) /\ Separate(th'[t]) /\ UNCHANGED <<ref, registered>>
           /\ th[t].pc \notin Over /\ th'[t].pc \notin Over
           /\ Gives(t, IF th[t].pc = "drop" THEN th[t].dq ELSE th[t].new)
           /\ \A c \in Ctx : Dispatched(th'[t], c) => Dispatched(th[t], c)
<1> DEFINE g == th[t]
           f == IF g.pc = "drop" THEN [g EXCEPT !.pc = AfterDrop(t), !.dq = NoCtx]
                ELSE IF g.pc = "push_new" THEN [g EXCEPT !.pc = "launched"]
                ELSE [g EXCEPT !.pc = "callback", !.new = NoCtx]
           to == IF g.pc = "drop" THEN AfterDrop(t) ELSE IF g.pc = "push_new" THEN "launched" ELSE "callback"
<1>1. g \in Frame /\ Shaped(g) /\ g.pc \in {"drop", "push_new", "push_gone"} /\ UNCHANGED <<ref, registered>>
  BY DEF Frames, DropDone, PushNew, At, ctxVars, harborVars
<1>2. th' = [th EXCEPT ![t] = f]
  BY DEF DropDone, PushNew, At, Frames
<1>3. /\ f.pc = to /\ f.q = g.q /\ f.nq = g.nq /\ f.obj = g.obj /\ f.ret = g.ret
      /\ f.new = (IF g.pc = "push_gone" THEN NoCtx ELSE g.new)
      /\ f.dq = (IF g.pc = "drop" THEN NoCtx ELSE g.dq)
  BY <1>1 DEF Frame
<1>4. f \in Frame
  <2>1. {"launched", "callback", "poll"} \subseteq Bases \cup Over
    BY DEF Bases, ReleaseRet, CallRet, NewBase
  <2>2. CASE g.pc = "drop"
    <3>1. AfterDrop(t) \in Bases \cup Over
      BY <2>1 DEF AfterDrop
    <3> QED  BY <1>1, <2>2, <3>1 DEF Frame, Ids
  <2>3. CASE g.pc # "drop"
    BY <1>1, <2>1, <2>3 DEF Frame, Ids
  <2> QED  BY <2>2, <2>3
<1>5. Base(g) = g.pc /\ Base(f) = f.pc /\ g.pc \notin Over /\ f.pc \notin Over /\ f.pc # "length"
  BY <1>1, <1>3 DEF Base, Over, Releasing, AfterDrop
<1> HIDE DEF f
<1>6. /\ g.nq = NoCtx /\ (g.pc = "drop" => g.dq # NoCtx /\ g.new = NoCtx)
      /\ (g.pc # "drop" => g.q # NoCtx /\ g.dq = NoCtx /\ g.new # NoCtx)
  BY <1>1, <1>5 DEF Shaped, NewBase
<1>7. Shaped(f)
  BY <1>1, <1>3, <1>5, <1>6 DEF Shaped, Bases, ReleaseRet, CallRet, Releasing, NewBase, AfterDrop
<1> DEFINE c == IF g.pc = "drop" THEN g.dq ELSE g.new
<1>8. Separate(f) /\ c \in HeldBy(g) /\ HeldBy(f) = HeldBy(g) \ {c} /\ f.dq \in {NoCtx, g.dq}
  <2>1. CASE g.pc = "drop"
    BY <1>3, <1>6, <2>1 DEF HeldBy, Separate, AfterDrop
  <2>2. CASE g.pc # "drop"
    BY <1>1, <1>3, <1>6, <2>2 DEF HeldBy, Separate
  <2> QED  BY <2>1, <2>2
<1>9. ASSUME NEW d \in Ctx
      PROVE  Refs(f, d) = Refs(g, d) /\ (Dispatched(f, d) => Dispatched(g, d))
  <2>1. d # NoCtx
    BY CtxAssumption
  <2>2. ~Grabbed(g, d) /\ ~Started(g, d) /\ ~Started(f, d) /\ ~Grabbed(f, d)
    BY <1>1, <1>3, <1>5 DEF Grabbed, Started, AfterDrop
  <2>3. Dispatched(g, d) = Dispatched(f, d)
    BY <1>1, <1>3, <1>5, <2>1 DEF Dispatched, Releasing, AfterDrop
  <2> QED  BY <2>2, <2>3 DEF Refs, One
<1>10. Moved(t) /\ Balanced(t) /\ th'[t] = f
  BY <1>1, <1>2, <1>4, <1>5, <1>7, <1>9, ShiftBy
<1> QED  BY <1>1, <1>5, <1>8, <1>9, <1>10 DEF Gives

(* skynet_context_new *)
LEMMA UserLaunchMoves ==
    ASSUME Types, Frames, NEW t \in Thread, NEW c \in Ctx \ born, ref[c] = 0, HeldBy(th[t]) \subseteq born,
           th[t].pc = "callback", NewContext(t, c)
    PROVE  /\ Moved(t) /\ Balanced(t) /\ Takes(t, c) /\ Separate(th'[t])
           /\ th[t].pc \notin Over /\ th'[t].pc = "init" /\ th'[t].new = c
           /\ \A d \in Ctx : Dispatched(th'[t], d) => Dispatched(th[t], d)
<1> DEFINE g == th[t]
           f == [g EXCEPT !.pc = "init", !.new = c]
<1>1. g \in Frame /\ Shaped(g) /\ c # NoCtx /\ c \in Ids
  BY CtxAssumption DEF Frames, Ids
<1>2. th' = [th EXCEPT ![t] = f] /\ registered' = registered \cup {c} /\ ref' = [ref EXCEPT ![c] = 2]
  BY DEF NewContext
<1>3. f.pc = "init" /\ f.q = g.q /\ f.nq = g.nq /\ f.dq = g.dq /\ f.new = c /\ f.obj = g.obj /\ f.ret = g.ret
  BY <1>1 DEF Frame
<1>4. f \in Frame
  <2>1. "init" \in Bases \cup Over
    BY DEF Bases, ReleaseRet, CallRet
  <2> QED  BY <1>1, <2>1 DEF Frame
<1>5. Base(g) = g.pc /\ Base(f) = f.pc /\ g.pc \notin Over
  BY <1>1, <1>3 DEF Base, Over, Releasing
<1> HIDE DEF f
<1>6. g.nq = NoCtx /\ g.dq = NoCtx /\ g.new = NoCtx /\ g.q # NoCtx /\ g.q # c
  <2>1. g.nq = NoCtx /\ g.dq = NoCtx /\ g.new = NoCtx /\ g.q # NoCtx
    BY <1>1, <1>5 DEF Shaped, NewBase
  <2> QED  BY <2>1 DEF HeldBy
<1>7. Shaped(f)
  BY <1>1, <1>3, <1>5, <1>6 DEF Shaped, Bases, ReleaseRet, CallRet, Releasing, NewBase
<1>8. Separate(f) /\ HeldBy(f) = HeldBy(g) \cup {c}
  BY <1>1, <1>3, <1>6 DEF HeldBy, Separate
<1>9. ASSUME NEW d \in Ctx
      PROVE  /\ ref'[d] = ref[d] + (Refs(f, d) - Refs(g, d)) + (One(d \in registered') - One(d \in registered))
             /\ Dispatched(f, d) => Dispatched(g, d)
  <2>1. d # NoCtx /\ ref[d] \in Int /\ c \notin registered
    BY CtxAssumption DEF Types
  <2>2. ~Grabbed(g, d) /\ ~Started(g, d) /\ (Started(f, d) <=> d = c) /\ ~Grabbed(f, d)
    BY <1>1, <1>3, <1>5 DEF Grabbed, Started
  <2>3. Dispatched(g, d) = Dispatched(f, d)
    BY <1>1, <1>3, <1>5, <2>1 DEF Dispatched, Releasing
  <2>4. Refs(f, d) - Refs(g, d) = One(d = c)
    BY <2>2, <2>3 DEF Refs, One
  <2>5. One(d \in registered') - One(d \in registered) = One(d = c)
    BY <1>2, <2>1 DEF One
  <2>6. ref'[d] = ref[d] + 2 * One(d = c)
    BY <1>2, <2>1 DEF One, Types
  <2> QED  BY <2>1, <2>3, <2>4, <2>5, <2>6 DEF One
<1>10. Moved(t) /\ th'[t] = f
  BY <1>2, <1>3, <1>4, <1>7, MovedBy DEF Weighed
<1> QED  BY <1>1, <1>3, <1>5, <1>8, <1>9, <1>10 DEF Balanced, Takes

-----------------------------------------------------------------------------
(* Counting *)

Kinds == {"grab", "dispatch", "launch"}
Has(f, k, c) == \/ k = "grab" /\ Grabbed(f, c)
                \/ k = "dispatch" /\ Dispatched(f, c)
                \/ k = "launch" /\ Started(f, c)

(* The references of the threads of U, and all of Holders *)
Held3(h, U, c) == {x \in U \X Kinds : Has(h[x[1]], x[2], c)}
All(reg, res, h, c) == Held3(h, Thread, c) \cup (IF c \in reg THEN {<<NoCtx, "slot">>} ELSE {})
                                           \cup (IF c \in res THEN {<<NoCtx, "harbor">>} ELSE {})

(* Holders, by thread and by kind *)
LEMMA HoldersForm == \A c \in Ctx : Holders(c) = All(registered, reserved, th, c)
<1> SUFFICES ASSUME NEW c \in Ctx PROVE Holders(c) = All(registered, reserved, th, c)
  OBVIOUS
<1>1. {<<NoCtx, "slot">> : x \in registered \cap {c}} = IF c \in registered THEN {<<NoCtx, "slot">>} ELSE {}
  OBVIOUS
<1>2. {<<t, "grab">> : t \in {u \in Thread : th[u].obj = c /\ th[u].pc \in {"push", "release"}}}
      = {x \in Thread \X {"grab"} : Grabbed(th[x[1]], c)}
  BY DEF Grabbed
<1>3. {<<t, "dispatch">> : t \in {u \in Thread : th[u].q = c /\ Dispatching(u)}}
      = {x \in Thread \X {"dispatch"} : Dispatched(th[x[1]], c)}
  <2>1. \A u \in Thread : th[u].q = c /\ Dispatching(u) <=> Dispatched(th[u], c)
    BY DEF Dispatched, Dispatching, At, InRelease, Releasing
  <2> QED  BY <2>1
<1>4. {<<t, "launch">> : t \in {u \in Thread : th[u].new = c /\ Launching(u)}}
      = {x \in Thread \X {"launch"} : Started(th[x[1]], c)}
  <2>1. \A u \in Thread : th[u].new = c /\ Launching(u) <=> Started(th[u], c)
    BY DEF Started, Launching, Base, Over, Releasing, InRelease
  <2> QED  BY <2>1
<1>5. Held3(th, Thread, c) = {x \in Thread \X {"grab"} : Grabbed(th[x[1]], c)}
                             \cup {x \in Thread \X {"dispatch"} : Dispatched(th[x[1]], c)}
                             \cup {x \in Thread \X {"launch"} : Started(th[x[1]], c)}
  BY DEF Held3, Has, Kinds
<1>6. {<<NoCtx, "harbor">> : x \in reserved \cap {c}} = IF c \in reserved THEN {<<NoCtx, "harbor">>} ELSE {}
  OBVIOUS
<1> QED  BY <1>1, <1>2, <1>3, <1>4, <1>5, <1>6 DEF Holders, All

(* The form of the set of holders, after a step *)
LEMMA HoldersFormNext == (\A c \in Ctx : Holders(c) = All(registered, reserved, th, c))'
BY HoldersForm, PTL

(* A set with an element more, or not *)
LEMMA AddIf ==
    ASSUME NEW S, IsFiniteSet(S), NEW e, e \notin S, NEW p \in BOOLEAN
    PROVE  /\ IsFiniteSet(S \cup IF p THEN {e} ELSE {})
           /\ Cardinality(S \cup IF p THEN {e} ELSE {}) = Cardinality(S) + One(p)
<1>1. CASE p
  <2>1. IsFiniteSet(S \cup {e}) /\ Cardinality(S \cup {e}) = Cardinality(S) + 1
    BY FS_AddElement
  <2> QED  BY <1>1, <2>1 DEF One
<1>2. CASE ~p
  <2>1. S \cup {} = S /\ Cardinality(S) \in Nat
    BY FS_CardinalityType
  <2> QED  BY <1>2, <2>1 DEF One
<1> QED  BY <1>1, <1>2

(* The holders are those of the other threads, those of one, the slot and  *)
(* the node.                                                               *)
Tally(reg, res, h, t, c) ==
    Cardinality(Held3(h, Thread \ {t}, c)) + Refs(h[t], c) + One(c \in reg) + One(c \in res)

LEMMA CountHolders ==
    ASSUME NEW reg, NEW res, NEW h, NEW t \in Thread, NEW c
    PROVE  /\ IsFiniteSet(Held3(h, Thread \ {t}, c))
           /\ Cardinality(All(reg, res, h, c)) = Tally(reg, res, h, t, c)
<1> DEFINE G == Grabbed(h[t], c)
           D == Dispatched(h[t], c)
           L == Started(h[t], c)
           S0 == Held3(h, Thread \ {t}, c)
           S1 == S0 \cup IF G THEN {<<t, "grab">>} ELSE {}
           S2 == S1 \cup IF D THEN {<<t, "dispatch">>} ELSE {}
           S3 == S2 \cup IF L THEN {<<t, "launch">>} ELSE {}
           S4 == S3 \cup IF c \in reg THEN {<<NoCtx, "slot">>} ELSE {}
           S5 == S4 \cup IF c \in res THEN {<<NoCtx, "harbor">>} ELSE {}
<1>1. G \in BOOLEAN /\ D \in BOOLEAN /\ L \in BOOLEAN
  BY DEF Grabbed, Dispatched, Started
<1>2. IsFiniteSet(S0)
  <2>1. IsFiniteSet(Thread \ {t})
    BY ThreadAssumption, FS_RemoveElement DEF Thread
  <2>2. IsFiniteSet(Kinds)
    <3>1. Kinds = (({} \cup {"grab"}) \cup {"dispatch"}) \cup {"launch"}
      BY DEF Kinds
    <3> QED  BY <3>1, FS_AddElement, FS_EmptySet
  <2>3. IsFiniteSet((Thread \ {t}) \X Kinds)
    BY <2>1, <2>2, FS_Product
  <2> QED  BY <2>3, FS_Subset DEF Held3
<1>3. <<t, "grab">> \notin S0 /\ <<t, "dispatch">> \notin S1 /\ <<t, "launch">> \notin S2 /\ <<NoCtx, "slot">> \notin S3
      /\ <<NoCtx, "harbor">> \notin S4
  BY DEF Held3, Kinds
<1>4. S5 = All(reg, res, h, c)
  <2>1. S3 = Held3(h, Thread, c)
    BY <1>1 DEF Held3, Kinds, Has
  <2> QED  BY <2>1 DEF All
<1> HIDE DEF S0, G, D, L
<1>5. IsFiniteSet(S1) /\ Cardinality(S1) = Cardinality(S0) + One(G)
  BY <1>1, <1>2, <1>3, AddIf
<1>6. IsFiniteSet(S2) /\ Cardinality(S2) = Cardinality(S1) + One(D)
  <2> HIDE DEF S1
  <2> QED  BY <1>1, <1>3, <1>5, AddIf
<1>7. IsFiniteSet(S3) /\ Cardinality(S3) = Cardinality(S2) + One(L)
  <2> HIDE DEF S2
  <2> QED  BY <1>1, <1>3, <1>6, AddIf
<1>8. /\ Cardinality(S4) = Cardinality(S3) + One(c \in reg)
      /\ Cardinality(S5) = Cardinality(S4) + One(c \in res)
  <2>1. (c \in reg) \in BOOLEAN
    OBVIOUS
  <2>2. IsFiniteSet(S4) /\ Cardinality(S4) = Cardinality(S3) + One(c \in reg)
    <3> HIDE DEF S3
    <3> QED  BY <1>3, <1>7, <2>1, AddIf
  <2>3. (c \in res) \in BOOLEAN
    OBVIOUS
  <2>4. Cardinality(S5) = Cardinality(S4) + One(c \in res)
    <3> HIDE DEF S4
    <3> QED  BY <1>3, <2>2, <2>3, AddIf
  <2> QED  BY <2>2, <2>4
<1> HIDE DEF S1, S2, S3, S4, S5
<1>9. Cardinality(S0) \in Nat /\ One(G) \in Nat /\ One(D) \in Nat /\ One(L) \in Nat
  BY <1>2, FS_CardinalityType DEF One
<1>10. Refs(h[t], c) = One(G) + One(D) + One(L)
  BY DEF G, D, L, Refs
<1> QED  BY <1>2, <1>4, <1>5, <1>6, <1>7, <1>8, <1>9, <1>10 DEF S0, One, Tally

(* What ref counts, seen from one thread *)
LEMMA CountedAs ==
    ASSUME Counted, NEW t \in Thread, NEW c \in Ctx
    PROVE  ref[c] = Cardinality(Held3(th, Thread \ {t}, c)) + Refs(th[t], c)
                    + One(c \in registered) + One(c \in reserved)
<1>1. ref[c] = Cardinality(All(registered, reserved, th, c))
  BY HoldersForm DEF Counted
<1>2. Cardinality(All(registered, reserved, th, c)) = Tally(registered, reserved, th, t, c)
  BY CountHolders, Zenon
<1> QED  BY <1>1, <1>2 DEF Tally

(* A balanced step keeps every count. *)
LEMMA CountsKept ==
    ASSUME Counted, NEW t \in Thread, Moved(t), Balanced(t), reserved' = reserved
    PROVE  Counted'
<1> SUFFICES ASSUME NEW c \in Ctx PROVE ref'[c] = Cardinality(All(registered', reserved', th', c))
  BY HoldersFormNext DEF Counted
<1> DEFINE n == Cardinality(Held3(th, Thread \ {t}, c))
<1>1. Held3(th', Thread \ {t}, c) = Held3(th, Thread \ {t}, c)
  BY DEF Held3, Moved
<1>2. IsFiniteSet(Held3(th, Thread \ {t}, c)) /\ n \in Nat
  BY CountHolders, FS_CardinalityType
<1>3. ref[c] = n + Refs(th[t], c) + One(c \in registered) + One(c \in reserved)
  BY CountedAs
<1>4. Cardinality(All(registered', reserved', th', c))
      = n + Refs(th'[t], c) + One(c \in registered') + One(c \in reserved)
  <2>1. Cardinality(All(registered', reserved', th', c)) = Tally(registered', reserved', th', t, c)
    BY CountHolders, Zenon
  <2> QED  BY <1>1, <2>1 DEF Tally
<1>5. /\ Refs(th[t], c) \in Int /\ Refs(th'[t], c) \in Int
      /\ One(c \in registered) \in Int /\ One(c \in registered') \in Int /\ One(c \in reserved) \in Int
  BY DEF Refs, One
<1>6. ref'[c] = ref[c] + (Refs(th'[t], c) - Refs(th[t], c)) + (One(c \in registered') - One(c \in registered))
  BY DEF Balanced
<1> QED  BY <1>2, <1>3, <1>4, <1>5, <1>6

(* Who holds a reference keeps the context alive. *)
LEMMA Live ==
    ASSUME Counted, NEW t \in Thread, NEW c \in Ctx,
           \/ c \in registered \/ c \in reserved
           \/ Grabbed(th[t], c) \/ Dispatched(th[t], c) \/ Started(th[t], c)
    PROVE  ref[c] \in Nat \ {0}
<1>1. ref[c] = Cardinality(Held3(th, Thread \ {t}, c)) + Refs(th[t], c)
               + One(c \in registered) + One(c \in reserved)
  BY CountedAs
<1>2. Cardinality(Held3(th, Thread \ {t}, c)) \in Nat
  BY CountHolders, FS_CardinalityType
<1>3. One(Grabbed(th[t], c)) \in Nat /\ One(Dispatched(th[t], c)) \in Nat /\ One(Started(th[t], c)) \in Nat
      /\ One(c \in registered) \in Nat /\ One(c \in reserved) \in Nat
  BY DEF One
<1>4. One(Grabbed(th[t], c)) + One(Dispatched(th[t], c)) + One(Started(th[t], c))
      + One(c \in registered) + One(c \in reserved) >= 1
  BY <1>3 DEF One
<1> QED  BY <1>1, <1>2, <1>3, <1>4 DEF Refs

(* What has begun to be deleted stays so, as long as nobody begins or ends *)
(* a deletion; a release that brings a count to 0 begins one.              *)
LEMMA DeadKept ==
    ASSUME Dead, NEW t \in Thread, Moved(t), UNCHANGED <<freed, release>>, born \subseteq born', born' \subseteq Ctx,
           \A c \in Ctx : ref'[c] = ref[c] \/ ref[c] # 0 \/ c \in born' \ born,
           th'[t].pc \notin {"delete"},
           th'[t].pc \in {"push", "release", "mark"} => th'[t].obj \in born',
           th'[t].pc = "mark" => ref[th'[t].obj] # 0 /\ ref'[th'[t].obj] = 0 /\ th'[t].obj \in born
    PROVE  Dead'
<1>1. \A u \in Thread \ {t} : th'[u] = th[u]
  BY DEF Moved
<1>2. \A c \in born : ref[c] = 0 => ref'[c] = 0
  BY DEF Dead
<1>3. \A c \in Ctx \ born' : ref'[c] = 0
  BY DEF Dead
<1>4. (\A c \in release' : c \in born' /\ ref'[c] = 0) /\ freed' \subseteq release'
  BY <1>2 DEF Dead
<1>5. th'[t].pc = "mark" => th'[t].obj \notin release /\ th'[t].obj \notin freed
  BY DEF Dead
<1>6. \A u \in Thread : /\ th'[u].pc \in {"push"} \cup Releasing => th'[u].obj \in born'
                        /\ th'[u].pc \in {"mark", "delete"} => ref'[th'[u].obj] = 0 /\ th'[u].obj \notin freed'
                        /\ th'[u].pc = "mark" => th'[u].obj \notin release'
                        /\ th'[u].pc = "delete" => th'[u].obj \in release'
  <2> SUFFICES ASSUME NEW u \in Thread
      PROVE  /\ th'[u].pc \in {"push"} \cup Releasing => th'[u].obj \in born'
             /\ th'[u].pc \in {"mark", "delete"} => ref'[th'[u].obj] = 0 /\ th'[u].obj \notin freed'
             /\ th'[u].pc = "mark" => th'[u].obj \notin release'
             /\ th'[u].pc = "delete" => th'[u].obj \in release'
    OBVIOUS
  <2>1. CASE u = t
    BY <1>5, <2>1 DEF Releasing
  <2>2. CASE u # t
    <3>1. th'[u] = th[u]
      BY <1>1, <2>2
    <3>2. /\ th[u].pc \in {"push"} \cup Releasing => th[u].obj \in born
          /\ th[u].pc \in {"mark", "delete"} => ref[th[u].obj] = 0 /\ th[u].obj \notin freed /\ th[u].obj \in born
          /\ th[u].pc = "mark" => th[u].obj \notin release
          /\ th[u].pc = "delete" => th[u].obj \in release
      BY DEF Dead, Dying, Releasing
    <3> QED  BY <1>2, <3>1, <3>2
  <2> QED  BY <2>1, <2>2
<1>7. \A u, v \in Thread : th'[u].pc \in {"mark", "delete"} /\ th'[v].pc \in {"mark", "delete"}
                           /\ th'[u].obj = th'[v].obj => u = v
  <2>1. \A u \in Thread \ {t} : th[u].pc \in {"mark", "delete"} => ref[th[u].obj] = 0
    BY DEF Dead, Dying
  <2>2. \A u, v \in Thread \ {t} : th[u].pc \in {"mark", "delete"} /\ th[v].pc \in {"mark", "delete"}
                                   /\ th[u].obj = th[v].obj => u = v
    BY DEF Dead, Dying
  <2> QED  BY <1>1, <2>1, <2>2
<1> QED  BY <1>3, <1>4, <1>6, <1>7 DEF Dead, Dying

(* The two steps of delete_context *)
LEMMA DeadDeleted ==
    ASSUME Dead, NEW t \in Thread, Moved(t), UNCHANGED <<ref, born>>,
           \/ /\ th[t].pc = "mark" /\ th'[t].pc = "delete" /\ th'[t].obj = th[t].obj
              /\ release' = release \cup {th[t].obj} /\ freed' = freed
           \/ /\ th[t].pc = "delete" /\ th'[t].pc \notin Over
              /\ freed' = freed \cup {th[t].obj} /\ release' = release
    PROVE  Dead'
<1> DEFINE c == th[t].obj
<1>1. \A u \in Thread \ {t} : th'[u] = th[u]
  BY DEF Moved
<1>2. /\ c \in born /\ ref[c] = 0 /\ c \notin freed
      /\ th[t].pc = "delete" => c \in release
      /\ \A u \in Thread \ {t} : th[u].pc \in {"mark", "delete"} => th[u].obj # c
  BY DEF Dead, Dying, Releasing
<1>3. (\A d \in release' : d \in born' /\ ref'[d] = 0) /\ freed' \subseteq release'
  BY <1>2 DEF Dead
<1>4. \A u \in Thread : /\ th'[u].pc \in {"push"} \cup Releasing => th'[u].obj \in born'
                        /\ th'[u].pc \in {"mark", "delete"} => ref'[th'[u].obj] = 0 /\ th'[u].obj \notin freed'
                        /\ th'[u].pc = "mark" => th'[u].obj \notin release'
                        /\ th'[u].pc = "delete" => th'[u].obj \in release'
  <2> SUFFICES ASSUME NEW u \in Thread
      PROVE  /\ th'[u].pc \in {"push"} \cup Releasing => th'[u].obj \in born'
             /\ th'[u].pc \in {"mark", "delete"} => ref'[th'[u].obj] = 0 /\ th'[u].obj \notin freed'
             /\ th'[u].pc = "mark" => th'[u].obj \notin release'
             /\ th'[u].pc = "delete" => th'[u].obj \in release'
    OBVIOUS
  <2>1. CASE u = t
    BY <1>2, <2>1 DEF Over, Releasing
  <2>2. CASE u # t
    <3>1. th'[u] = th[u]
      BY <1>1, <2>2
    <3>2. /\ th[u].pc \in {"push"} \cup Releasing => th[u].obj \in born
          /\ th[u].pc \in {"mark", "delete"} => ref[th[u].obj] = 0 /\ th[u].obj \notin freed
          /\ th[u].pc = "mark" => th[u].obj \notin release
          /\ th[u].pc = "delete" => th[u].obj \in release
      BY DEF Dead, Dying
    <3> QED  BY <1>2, <2>2, <3>1, <3>2
  <2> QED  BY <2>1, <2>2
<1>5. \A u, v \in Thread : th'[u].pc \in {"mark", "delete"} /\ th'[v].pc \in {"mark", "delete"}
                           /\ th'[u].obj = th'[v].obj => u = v
  <2>1. \A u, v \in Thread \ {t} : th[u].pc \in {"mark", "delete"} /\ th[v].pc \in {"mark", "delete"}
                                   /\ th[u].obj = th[v].obj => u = v
    BY DEF Dead, Dying
  <2>2. th'[t].pc \in {"mark", "delete"} => th'[t].obj = c
    BY DEF Over, Releasing
  <2> QED  BY <1>1, <1>2, <2>1, <2>2
<1> QED  BY <1>3, <1>4, <1>5 DEF Dead, Dying

-----------------------------------------------------------------------------
(* Owning *)

(* Pushing a mailbox to the end of the global queue *)
LEMMA Appended ==
    ASSUME NEW S, NEW s \in Seq(S), NEW e \in S
    PROVE  /\ Append(s, e) \in Seq(S) /\ Queued(Append(s, e)) = Queued(s) \cup {e}
           /\ Once(s) /\ e \notin Queued(s) => Once(Append(s, e))
<1> DEFINE a == Append(s, e)
<1>1. /\ a \in Seq(S) /\ Len(s) \in Nat /\ DOMAIN s = 1 .. Len(s) /\ DOMAIN a = 1 .. Len(s) + 1
      /\ a[Len(s) + 1] = e /\ \A i \in 1 .. Len(s) : a[i] = s[i]
  OBVIOUS
<1> HIDE DEF a
<1>2. Queued(a) = Queued(s) \cup {e}
  BY <1>1 DEF Queued
<1>3. Once(s) /\ e \notin Queued(s) => Once(a)
  BY <1>1 DEF Once, Queued
<1> QED  BY <1>1, <1>2, <1>3 DEF a

(* Popping the mailbox at the head of the global queue *)
LEMMA Popped ==
    ASSUME NEW S, NEW s \in Seq(S), s # <<>>
    PROVE  /\ Tail(s) \in Seq(S) /\ Head(s) \in S /\ Head(s) \in Queued(s)
           /\ Once(s) => Once(Tail(s)) /\ Queued(Tail(s)) = Queued(s) \ {Head(s)}
<1> DEFINE a == Tail(s)
<1>1. /\ a \in Seq(S) /\ Len(s) \in Nat \ {0} /\ DOMAIN s = 1 .. Len(s) /\ DOMAIN a = 1 .. Len(s) - 1
      /\ Head(s) = s[1] /\ s[1] \in S /\ \A i \in 1 .. Len(s) - 1 : a[i] = s[i + 1]
  OBVIOUS
<1> HIDE DEF a
<1>2. Head(s) \in Queued(s)
  BY <1>1 DEF Queued
<1>3. ASSUME Once(s) PROVE Once(a) /\ Queued(a) = Queued(s) \ {Head(s)}
  <2>1. Once(a)
    <3> SUFFICES ASSUME NEW i \in 1 .. Len(s) - 1, NEW j \in 1 .. Len(s) - 1, a[i] = a[j] PROVE i = j
      BY <1>1 DEF Once
    <3>1. i + 1 \in DOMAIN s /\ j + 1 \in DOMAIN s /\ s[i + 1] = s[j + 1]
      BY <1>1
    <3>2. i + 1 = j + 1
      BY <1>3, <3>1 DEF Once
    <3> QED  BY <3>2
  <2>2. ASSUME NEW x \in Queued(a) PROVE x \in Queued(s) /\ x # Head(s)
    <3>1. PICK i \in 1 .. Len(s) - 1 : x = a[i]
      BY <1>1 DEF Queued
    <3>2. i + 1 \in 1 .. Len(s) /\ x = s[i + 1] /\ i + 1 # 1
      BY <1>1, <3>1
    <3> QED  BY <1>1, <1>3, <3>2 DEF Queued, Once
  <2>3. ASSUME NEW x \in Queued(s), x # Head(s) PROVE x \in Queued(a)
    <3>1. PICK i \in 1 .. Len(s) : x = s[i]
      BY <1>1 DEF Queued
    <3>2. i - 1 \in 1 .. Len(s) - 1 /\ x = a[i - 1]
      BY <1>1, <2>3, <3>1
    <3> QED  BY <1>1, <3>2 DEF Queued
  <2> QED  BY <2>1, <2>2, <2>3
<1> QED  BY <1>1, <1>2, <1>3 DEF a

(* What the other threads own *)
Rest(h, t) == UNION {HeldBy(h[u]) : u \in Thread \ {t}}

(* Who owns a mailbox: the global queue, one thread, or another *)
LEMMA Parts ==
    ASSUME NEW t \in Thread, Alone
    PROVE  /\ Owned = Queued(gq) \cup HeldBy(th[t]) \cup Rest(th, t)
           /\ Queued(gq) \cap HeldBy(th[t]) = {}
           /\ (Queued(gq) \cup HeldBy(th[t])) \cap Rest(th, t) = {}
  BY DEF Owned, Rest, Alone

(* A step that takes nothing from the others shares nothing with them. *)
LEMMA AloneBy ==
    ASSUME NEW t \in Thread, Alone, Moved(t), Once(gq'), Separate(th'[t]),
           Queued(gq') \cap HeldBy(th'[t]) = {},
           (Queued(gq') \cup HeldBy(th'[t])) \cap Rest(th, t) = {}
    PROVE  Alone' /\ Owned' = Queued(gq') \cup HeldBy(th'[t]) \cup Rest(th, t)
<1>1. \A u \in Thread \ {t} : th'[u] = th[u] /\ HeldBy(th[u]) \subseteq Rest(th, t)
  BY DEF Moved, Rest
<1>2. Owned' = Queued(gq') \cup HeldBy(th'[t]) \cup Rest(th, t)
  <2>1. UNION {HeldBy(th'[u]) : u \in Thread} = HeldBy(th'[t]) \cup Rest(th, t)
    BY <1>1 DEF Rest
  <2> QED  BY <2>1 DEF Owned
<1>3. \A u \in Thread : HeldBy(th'[u]) \cap Queued(gq') = {} /\ Separate(th'[u])
  BY <1>1 DEF Alone
<1>4. \A u, v \in Thread : u # v => HeldBy(th'[u]) \cap HeldBy(th'[v]) = {}
  <2>1. \A u, v \in Thread \ {t} : u # v => HeldBy(th[u]) \cap HeldBy(th[v]) = {}
    BY DEF Alone
  <2>2. \A u \in Thread \ {t} : HeldBy(th'[t]) \cap HeldBy(th[u]) = {}
    BY <1>1
  <2> SUFFICES ASSUME NEW u \in Thread, NEW v \in Thread, u # v PROVE HeldBy(th'[u]) \cap HeldBy(th'[v]) = {}
    OBVIOUS
  <2> QED  BY <1>1, <2>1, <2>2
<1> QED  BY <1>2, <1>3, <1>4 DEF Alone

(* The ways in which a step changes who owns what *)
LEMMA AloneKept ==
    ASSUME NEW t \in Thread, Alone, Moved(t), Separate(th'[t]), gq' = gq, HeldBy(th'[t]) = HeldBy(th[t])
    PROVE  Alone' /\ Owned' = Owned
BY Parts, AloneBy DEF Alone

(* A thread pops a mailbox from the global queue: it owns it now. *)
LEMMA AloneTakes ==
    ASSUME NEW t \in Thread, Types, Alone, Moved(t), Separate(th'[t]), gq # <<>>, gq' = Tail(gq), Takes(t, Head(gq))
    PROVE  Alone' /\ Owned' = Owned
<1>1. /\ Once(gq') /\ Head(gq) \in Queued(gq) /\ Queued(gq') = Queued(gq) \ {Head(gq)}
  BY Popped DEF Types, Alone
<1>2. HeldBy(th'[t]) = HeldBy(th[t]) \cup {Head(gq)}
  BY DEF Takes
<1>3. /\ Queued(gq') \cup HeldBy(th'[t]) = Queued(gq) \cup HeldBy(th[t])
      /\ Queued(gq') \cap HeldBy(th'[t]) = {}
  BY <1>1, <1>2, Parts
<1>4. Alone' /\ Owned' = Queued(gq') \cup HeldBy(th'[t]) \cup Rest(th, t)
  BY <1>1, <1>3, Parts, AloneBy
<1> QED  BY <1>3, <1>4, Parts

(* A thread pushes its mailbox back: the queue owns it now. *)
LEMMA AloneGives ==
    ASSUME NEW t \in Thread, Types, Alone, Moved(t), Separate(th'[t]), NEW c \in born, gq' = Append(gq, c), Gives(t, c)
    PROVE  Alone' /\ Owned' = Owned
<1>1. c \in HeldBy(th[t]) /\ HeldBy(th'[t]) = HeldBy(th[t]) \ {c}
  BY DEF Gives
<1>2. c \notin Queued(gq)
  BY <1>1, Parts
<1>3. Once(gq') /\ Queued(gq') = Queued(gq) \cup {c}
  BY <1>2, Appended DEF Types, Alone
<1>4. /\ Queued(gq') \cup HeldBy(th'[t]) = Queued(gq) \cup HeldBy(th[t])
      /\ Queued(gq') \cap HeldBy(th'[t]) = {}
  BY <1>1, <1>3, Parts
<1>5. Alone' /\ Owned' = Queued(gq') \cup HeldBy(th'[t]) \cup Rest(th, t)
  BY <1>3, <1>4, Parts, AloneBy
<1> QED  BY <1>4, <1>5, Parts

(* A thread lets go of a mailbox, which nobody owns now. *)
LEMMA AloneLoses ==
    ASSUME NEW t \in Thread, Alone, Moved(t), Separate(th'[t]), NEW c, gq' = gq, Gives(t, c)
    PROVE  Alone' /\ Owned' = Owned \ {c}
<1>1. c \in HeldBy(th[t]) /\ HeldBy(th'[t]) = HeldBy(th[t]) \ {c}
  BY DEF Gives
<1> QED  BY <1>1, Parts, AloneBy, SMTT(30) DEF Alone

(* A thread takes a mailbox that nobody owned. *)
LEMMA AloneGains ==
    ASSUME NEW t \in Thread, Alone, Moved(t), Separate(th'[t]), NEW c, gq' = gq, Takes(t, c), c \notin Owned
    PROVE  Alone' /\ Owned' = Owned \cup {c}
<1>1. HeldBy(th'[t]) = HeldBy(th[t]) \cup {c}
  BY DEF Takes
<1> QED  BY <1>1, Parts, AloneBy, SMTT(30) DEF Alone

(* A mailbox that nobody owned is pushed to the global queue. *)
LEMMA AloneQueues ==
    ASSUME NEW t \in Thread, Types, Alone, Moved(t), Separate(th'[t]), HeldBy(th'[t]) = HeldBy(th[t]),
           NEW c \in born, gq' = Append(gq, c), c \notin Owned
    PROVE  Alone' /\ Owned' = Owned \cup {c}
<1>1. c \notin Queued(gq)
  BY Parts
<1>2. Once(gq') /\ Queued(gq') = Queued(gq) \cup {c}
  BY <1>1, Appended DEF Types, Alone
<1> QED  BY <1>2, Parts, AloneBy

-----------------------------------------------------------------------------
(* What follows from the invariants *)

(* What the invariant says of one thread *)
LEMMA Facts ==
    ASSUME Core, NEW t \in Thread
    PROVE  /\ HeldBy(th[t]) \subseteq born /\ born \subseteq Ctx /\ NoCtx \notin HeldBy(th[t])
           /\ th[t] \in Frame /\ Shaped(th[t]) /\ Separate(th[t]) /\ gq \in Seq(born)
           /\ ref \in [Ctx -> Int] /\ registered \subseteq born /\ mbox \in [Ctx -> Seq(Ids)]
           /\ Queued(gq) \subseteq born /\ HeldBy(th[t]) \cap Queued(gq) = {}
           /\ Alone
<1>1. HeldBy(th[t]) \subseteq Owned /\ Queued(gq) \subseteq Owned
  BY DEF Owned
<1>2. Owned \subseteq born
  BY DEF Core, Owners, Dead
<1> QED  BY <1>1, <1>2 DEF Core, Types, Frames, Owners, Alone, HeldBy

(* Who holds a reference keeps the context and its mailbox alive. *)
LEMMA Alive ==
    ASSUME Core, NEW t \in Thread, NEW c \in Ctx,
           \/ c \in registered \/ c \in reserved
           \/ Grabbed(th[t], c) \/ Dispatched(th[t], c) \/ Started(th[t], c)
    PROVE  ref[c] # 0 /\ c \in born /\ c \notin release /\ c \notin freed /\ c \notin qfreed
<1>1. ref[c] # 0
  BY Live DEF Core
<1>2. c \notin release /\ c \in born
  BY <1>1 DEF Core, Dead
<1> QED  BY <1>1, <1>2 DEF Core, Dead, Owners

(* A step after which the same mailboxes have an owner *)
LEMMA CoreKept ==
    ASSUME Core, NEW t \in Thread, Moved(t), Balanced(t), Alone', Owned' = Owned, gq' \in Seq(born),
           th'[t].dq \in {NoCtx, th[t].dq} \cup release,
           mbox' \in [Ctx -> Seq(Ids)], \A c \in Ctx : mbox'[c] # <<>> => mbox[c] # <<>>,
           UNCHANGED <<born, freed, total, reserved, remote, release, in_global, qfreed>>,
           registered' \subseteq registered, ready' \subseteq born, ops' \in 0 .. MaxOps,
           ref' \in [Ctx -> Int], \A c \in Ctx : ref'[c] = ref[c] \/ ref[c] # 0,
           th'[t].pc # "delete",
           th'[t].pc \in {"push", "release", "mark"} => th'[t].obj \in born,
           th'[t].pc = "mark" => ref[th'[t].obj] # 0 /\ ref'[th'[t].obj] = 0
    PROVE  Core'
<1>1. Types'
  BY DEF Types, Core
<1>2. Frames'
  BY DEF Frames, Core, Moved
<1>3. Counted'
  BY CountsKept DEF Core
<1>4. Dead'
  <2>1. born \subseteq born' /\ born' \subseteq Ctx /\ UNCHANGED <<freed, release>>
    BY DEF Core, Types
  <2>2. \A c \in Ctx : ref'[c] = ref[c] \/ ref[c] # 0 \/ c \in born' \ born
    OBVIOUS
  <2>3. /\ th'[t].pc \in {"push", "release", "mark"} => th'[t].obj \in born'
        /\ th'[t].pc = "mark" => ref[th'[t].obj] # 0 /\ ref'[th'[t].obj] = 0 /\ th'[t].obj \in born
    OBVIOUS
  <2> QED  BY <2>1, <2>2, <2>3, DeadKept DEF Core
<1>5. Owners'
  <2>1. \A u \in Thread : th'[u].dq # NoCtx => th'[u].dq \in release'
    BY DEF Core, Owners, Moved
  <2>2. \A c \in Ctx : mbox'[c] # <<>> => c \in in_global'
    BY DEF Core, Owners
  <2>3. Owned' = (in_global' \cup release') \ qfreed' /\ in_global' \subseteq born' /\ qfreed' \subseteq release'
    BY DEF Core, Owners
  <2> QED  BY <2>1, <2>2, <2>3 DEF Owners
<1>6. Numbers'
  BY DEF Core, Numbers
<1> QED  BY <1>1, <1>2, <1>3, <1>4, <1>5, <1>6 DEF Core

(* In particular, a step of one thread apart from the mailboxes it holds *)
LEMMA CoreQuiet ==
    ASSUME Core, NEW t \in Thread, Moved(t), Balanced(t), Keeps(t),
           mbox' \in [Ctx -> Seq(Ids)], \A c \in Ctx : mbox'[c] # <<>> => mbox[c] # <<>>,
           UNCHANGED <<born, freed, total, reserved, remote, release, in_global, qfreed, gq>>,
           registered' \subseteq registered, ready' \subseteq born, ops' \in 0 .. MaxOps,
           ref' \in [Ctx -> Int], \A c \in Ctx : ref'[c] = ref[c] \/ ref[c] # 0,
           th'[t].pc # "delete",
           th'[t].pc \in {"push", "release", "mark"} => th'[t].obj \in born,
           th'[t].pc = "mark" => ref[th'[t].obj] # 0 /\ ref'[th'[t].obj] = 0
    PROVE  Core'
<1>1. Separate(th'[t]) /\ th'[t].dq \in {NoCtx, th[t].dq} \cup release
  BY Facts DEF Keeps, Fixed, Separate
<1>2. Alone' /\ Owned' = Owned
  BY <1>1, Facts, AloneKept DEF Keeps
<1>3. gq' \in Seq(born)
  BY Facts
<1> QED  BY <1>1, <1>2, <1>3, CoreKept

-----------------------------------------------------------------------------
(* Every step preserves the core of the invariant *)

(* Grabbing the destination of a message *)
LEMMA SendGrabCore == ASSUME Core, NEW t \in Thread, SendGrab(t) PROVE Core'
<1>1. /\ UNCHANGED <<born, freed, total, reserved, remote, release, in_global, qfreed, gq, mbox, registered, ready, ops>>
  BY DEF SendGrab, mqVars, harborVars
<1>2. /\ Moved(t) /\ Balanced(t) /\ Keeps(t)
      /\ th[t].pc = "grab_dst" /\ th'[t].pc \notin Releasing
      /\ th'[t].pc = "push" => th'[t].obj \in registered /\ ref' = [ref EXCEPT ![th'[t].obj] = @ + 1]
      /\ th'[t].pc # "push" => UNCHANGED ref
  BY SendGrabMoves DEF Core
<1>3. /\ ref' \in [Ctx -> Int]
      /\ \A c \in Ctx : ref'[c] = ref[c] \/ ref[c] # 0
      /\ th'[t].pc = "push" => th'[t].obj \in born
  <2>1. CASE th'[t].pc = "push"
    <3>1. th'[t].obj \in Ctx /\ ref[th'[t].obj] # 0 /\ th'[t].obj \in born
      BY <1>2, <2>1, Facts, Alive
    <3> QED  BY <1>2, <2>1, <3>1, Facts
  <2>2. CASE th'[t].pc # "push"
    BY <1>2, <2>2, Facts
  <2> QED  BY <2>1, <2>2
<1>4. /\ mbox' \in [Ctx -> Seq(Ids)] /\ \A c \in Ctx : mbox'[c] # <<>> => mbox[c] # <<>>
      /\ registered' \subseteq registered /\ ready' \subseteq born /\ ops' \in 0 .. MaxOps
  BY <1>1, Facts DEF Core, Numbers
<1>5. th'[t].pc \notin {"release", "mark", "delete"}
  BY <1>2 DEF Releasing
<1> QED  BY <1>1, <1>2, <1>3, <1>4, <1>5, CoreQuiet

(* Dropping a reference *)
LEMMA ReleaseCore == ASSUME Core, NEW t \in Thread, Release(t) PROVE Core'
<1> DEFINE c == th[t].obj
<1>1. th[t].pc = "release" /\ UNCHANGED <<born, freed, total, reserved, remote, release, in_global, qfreed, gq, mbox, registered, ready, ops>>
  BY DEF Release, At, mqVars, harborVars
<1>2. c \in born /\ c \in Ctx
  BY <1>1, Facts DEF Core, Dead, Releasing
<1>3. /\ Moved(t) /\ Balanced(t) /\ Keeps(t) /\ ref' = [ref EXCEPT ![c] = @ - 1]
      /\ IF ref[c] = 1 THEN th'[t].pc = "mark" /\ th'[t].obj = c ELSE th'[t].pc \notin Over
  BY <1>2, ReleaseMoves DEF Core
<1>4. ref[c] # 0
  BY <1>1, <1>2, Alive DEF Grabbed
<1>5. ref' \in [Ctx -> Int] /\ (\A d \in Ctx : ref'[d] = ref[d] \/ ref[d] # 0) /\ (ref[c] = 1 => ref'[c] = 0)
  BY <1>2, <1>3, <1>4, Facts
<1>6. /\ th'[t].pc # "delete"
      /\ th'[t].pc \in {"push", "release", "mark"} => ref[c] = 1 /\ th'[t].pc = "mark" /\ th'[t].obj = c
  BY <1>3 DEF Over, Releasing
<1>7. /\ mbox' \in [Ctx -> Seq(Ids)] /\ \A d \in Ctx : mbox'[d] # <<>> => mbox[d] # <<>>
      /\ registered' \subseteq registered /\ ready' \subseteq born /\ ops' \in 0 .. MaxOps
  BY <1>1, Facts DEF Core, Numbers
<1>8. /\ th'[t].pc \in {"push", "release", "mark"} => th'[t].obj \in born
      /\ th'[t].pc = "mark" => ref[th'[t].obj] # 0 /\ ref'[th'[t].obj] = 0
  BY <1>2, <1>4, <1>5, <1>6
<1> HIDE DEF c
<1> QED  BY <1>1, <1>3, <1>5, <1>6, <1>7, <1>8, CoreQuiet

(* Retiring a handle *)
LEMMA RetireCore == ASSUME Core, NEW t \in Thread, Retire(t) \/ RetireNew(t) PROVE Core'
<1>1. UNCHANGED <<born, freed, total, reserved, remote, release, in_global, qfreed, gq, mbox, ready, ops>>
  BY DEF Retire, RetireNew, RetireThen, mqVars, harborVars
<1>2. /\ Moved(t) /\ Balanced(t) /\ Keeps(t) /\ ref' = ref
      /\ \/ registered' = registered /\ th'[t].pc \notin Over
         \/ /\ th'[t].pc = "release" /\ th'[t].obj \in registered
            /\ registered' = registered \ {th'[t].obj}
  BY RetireMoves DEF Core
<1>3. /\ registered' \subseteq registered
      /\ th'[t].pc \notin {"mark", "delete"}
      /\ th'[t].pc \in {"push", "release", "mark"} => th'[t].obj \in born
  BY <1>2, Facts DEF Over, Releasing
<1>4. /\ mbox' \in [Ctx -> Seq(Ids)] /\ \A d \in Ctx : mbox'[d] # <<>> => mbox[d] # <<>>
      /\ ready' \subseteq born /\ ops' \in 0 .. MaxOps /\ ref' \in [Ctx -> Int]
      /\ \A c \in Ctx : ref'[c] = ref[c]
  BY <1>1, <1>2, Facts DEF Core, Numbers
<1> QED  BY <1>1, <1>2, <1>3, <1>4, CoreQuiet

(* What the code of services begins *)
LEMMA UserCore ==
    ASSUME Core, NEW t \in Thread, UserSend(t) \/ UserKill(t) \/ OutsiderSend(t) \/ DropMessage(t)
    PROVE  Core'
<1>1. UNCHANGED <<born, freed, total, reserved, remote, release, in_global, qfreed, gq, registered, ready, ref>>
  BY DEF UserSend, UserKill, OutsiderSend, DropMessage, mqVars, ctxVars, harborVars
<1>2. Moved(t) /\ Balanced(t) /\ Keeps(t) /\ th'[t].pc \in {"grab_dst", "retire"}
  BY Facts, UserMoves DEF Core
<1>3. ops' \in 0 .. MaxOps
  BY ThreadAssumption DEF UserSend, UserKill, OutsiderSend, DropMessage, CanCall, Core, Numbers
<1>4. mbox' \in [Ctx -> Seq(Ids)] /\ \A c \in Ctx : mbox'[c] # <<>> => mbox[c] # <<>>
  <2>1. CASE mbox' = mbox
    BY <2>1, Facts
  <2>2. CASE DropMessage(t)
    <3> DEFINE c == th[t].dq
    <3>1. th[t].pc = "drop" /\ mbox[c] # <<>> /\ mbox' = [mbox EXCEPT ![c] = Tail(@)]
      BY <2>2 DEF DropMessage, At
    <3>2. c \in Ctx
      BY <3>1, Facts DEF Frame, Ids, Shaped, Base, Over, Releasing
    <3>3. mbox[c] \in Seq(Ids)
      BY <3>2, Facts
    <3>4. Tail(mbox[c]) \in Seq(Ids)
      BY <3>1, <3>3
    <3> HIDE DEF c
    <3> QED  BY <3>1, <3>2, <3>4, Facts
  <2> QED  BY <2>1, <2>2 DEF UserSend, UserKill, OutsiderSend, mqVars
<1>5. /\ registered' \subseteq registered /\ ready' \subseteq born /\ ref' \in [Ctx -> Int]
      /\ \A c \in Ctx : ref'[c] = ref[c]
  BY <1>1, Facts DEF Core, Numbers
<1>6. th'[t].pc \notin {"push", "release", "mark", "delete"}
  BY <1>2
<1> QED  BY <1>1, <1>2, <1>3, <1>4, <1>5, <1>6, CoreQuiet

(* The steps of a round of skynet_context_message_dispatch *)
LEMMA RoundCore ==
    ASSUME Core, NEW t \in Thread, SetInit(t) \/ (t \in Worker /\ PopMessage(t)) \/ Length(t) \/ CallbackReturns(t)
    PROVE  Core'
<1>1. UNCHANGED <<born, freed, total, reserved, remote, release, in_global, qfreed, gq, registered, ref, ops>>
  BY DEF SetInit, PopMessage, Length, CallbackReturns, mqVars, ctxVars, harborVars
<1>2. Moved(t) /\ Balanced(t) /\ Keeps(t) /\ th[t].pc \notin Over /\ th'[t].pc \notin Over
  BY Facts, RoundMoves DEF Core
<1>3. ready' \subseteq born
  <2>1. CASE SetInit(t)
    <3>1. th[t].pc = "set_init" /\ ready' = ready \cup {th[t].new}
      BY <2>1 DEF SetInit, At
    <3>2. th[t].new \in HeldBy(th[t])
      BY <3>1, Facts DEF Shaped, Base, Over, Releasing, NewBase, HeldBy
    <3> QED  BY <3>1, <3>2, Facts DEF Core, Numbers
  <2>2. CASE ready' = ready
    BY <2>2 DEF Core, Numbers
  <2> QED  BY <2>1, <2>2 DEF PopMessage, Length, CallbackReturns, ctxVars, harborVars
<1>4. mbox' \in [Ctx -> Seq(Ids)] /\ \A c \in Ctx : mbox'[c] # <<>> => mbox[c] # <<>>
  <2>1. CASE mbox' = mbox
    BY <2>1, Facts
  <2>2. CASE PopMessage(t)
    <3> DEFINE c == th[t].q
    <3>1. th[t].pc \in {"pop_first", "pop"} /\ mbox[c] # <<>> /\ mbox' = [mbox EXCEPT ![c] = Tail(@)]
      BY <2>2 DEF PopMessage, At
    <3>2. c \in Ctx
      BY <3>1, Facts DEF Frame, Ids, Shaped, Base, Over, Releasing
    <3>3. mbox[c] \in Seq(Ids)
      BY <3>2, Facts
    <3>4. Tail(mbox[c]) \in Seq(Ids)
      BY <3>1, <3>3
    <3> HIDE DEF c
    <3> QED  BY <3>1, <3>2, <3>4, Facts
  <2> QED  BY <2>1, <2>2 DEF SetInit, Length, CallbackReturns, mqVars
<1>5. /\ registered' \subseteq registered /\ ref' \in [Ctx -> Int] /\ ops' \in 0 .. MaxOps
      /\ \A c \in Ctx : ref'[c] = ref[c]
  BY <1>1, Facts DEF Core, Numbers
<1>6. th'[t].pc \notin {"push", "release", "mark", "delete"}
  BY <1>2 DEF Over, Releasing
<1> QED  BY <1>1, <1>2, <1>3, <1>4, <1>5, <1>6, CoreQuiet

(* The end of a launch *)
LEMMA LaunchCore ==
    ASSUME Core, NEW t \in Thread, InitSucceeds(t) \/ InitFails(t) \/ Launched(t)
    PROVE  Core'
<1>1. UNCHANGED <<born, freed, total, reserved, remote, release, in_global, qfreed, gq, mbox, registered, ready, ref, ops>>
  BY DEF InitSucceeds, InitFails, Launched, mqVars, ctxVars, harborVars
<1>2. /\ Moved(t) /\ Balanced(t) /\ Keeps(t)
      /\ \/ th'[t].pc \notin Over
         \/ th'[t].pc = "release" /\ th'[t].obj \in HeldBy(th[t])
  BY Facts, LaunchMoves DEF Core
<1>3. /\ th'[t].pc \notin {"mark", "delete"}
      /\ th'[t].pc \in {"push", "release", "mark"} => th'[t].obj \in born
  BY <1>2, Facts DEF Over, Releasing
<1>4. /\ mbox' \in [Ctx -> Seq(Ids)] /\ \A d \in Ctx : mbox'[d] # <<>> => mbox[d] # <<>>
      /\ registered' \subseteq registered /\ ready' \subseteq born /\ ops' \in 0 .. MaxOps /\ ref' \in [Ctx -> Int]
      /\ \A c \in Ctx : ref'[c] = ref[c]
  BY <1>1, Facts DEF Core, Numbers
<1> QED  BY <1>1, <1>2, <1>3, <1>4, CoreQuiet

(* Grabbing the context of a mailbox that was popped *)
LEMMA DispatchGrabCore == ASSUME Core, NEW t \in Thread, DispatchGrab(t) PROVE Core'
<1>1. UNCHANGED <<born, freed, total, reserved, remote, release, in_global, qfreed, gq, mbox, registered, ready, ops>>
  BY DEF DispatchGrab, mqVars, harborVars
<1>2. /\ Moved(t) /\ Balanced(t) /\ HeldBy(th'[t]) = HeldBy(th[t]) /\ Fixed(th'[t], th[t])
      /\ th'[t].pc \notin Over
      /\ \/ ref' = ref
         \/ th[t].q \in registered /\ ref' = [ref EXCEPT ![th[t].q] = @ + 1]
  BY DispatchGrabMoves DEF Core
<1>3. ref' \in [Ctx -> Int] /\ \A c \in Ctx : ref'[c] = ref[c] \/ ref[c] # 0
  <2>1. CASE ref' = ref
    BY <2>1, Facts
  <2>2. CASE th[t].q \in registered /\ ref' = [ref EXCEPT ![th[t].q] = @ + 1]
    <3>1. th[t].q \in Ctx /\ ref[th[t].q] # 0
      BY <2>2, Facts, Alive
    <3> QED  BY <2>2, <3>1, Facts
  <2> QED  BY <1>2, <2>1, <2>2
<1>4. Alone' /\ Owned' = Owned /\ th'[t].dq \in {NoCtx, th[t].dq} \cup release
  <2>1. Separate(th'[t]) /\ th'[t].dq \in {NoCtx, th[t].dq} \cup release
    BY <1>2, Facts DEF Fixed, Separate
  <2> QED  BY <1>1, <1>2, <2>1, Facts, AloneKept
<1>5. th'[t].pc \notin {"push", "release", "mark", "delete"}
  BY <1>2 DEF Over, Releasing
<1>6. /\ mbox' \in [Ctx -> Seq(Ids)] /\ \A d \in Ctx : mbox'[d] # <<>> => mbox[d] # <<>>
      /\ registered' \subseteq registered /\ ready' \subseteq born /\ ops' \in 0 .. MaxOps /\ gq' \in Seq(born)
  BY <1>1, Facts DEF Core, Numbers
<1> QED  BY <1>1, <1>2, <1>3, <1>4, <1>5, <1>6, CoreKept

(* A mailbox is taken from the global queue. *)
LEMMA TakeCore ==
    ASSUME Core, NEW t \in Thread, GlobalmqPop(t) \/ NextQueue(t)
    PROVE  Core'
<1>1. UNCHANGED <<born, freed, total, reserved, remote, release, in_global, qfreed, mbox, registered, ready, ref, ops>>
  BY DEF GlobalmqPop, NextQueue, ctxVars, harborVars
<1>2. /\ mbox' \in [Ctx -> Seq(Ids)] /\ \A d \in Ctx : mbox'[d] # <<>> => mbox[d] # <<>>
      /\ registered' \subseteq registered /\ ready' \subseteq born /\ ops' \in 0 .. MaxOps /\ ref' \in [Ctx -> Int]
      /\ \A c \in Ctx : ref'[c] = ref[c]
  BY <1>1, Facts DEF Core, Numbers
<1>3. CASE NextQueue(t) /\ gq = <<>>
  <2>1. th[t].pc = "end" /\ CallRelease(t, th[t].q, "grab") /\ gq' = gq
    BY <1>3 DEF NextQueue, At
  <2>2. th[t].q \in Ctx /\ th[t].q \in born
    BY <2>1, Facts DEF Frame, Ids, Shaped, Base, Over, Releasing, HeldBy
  <2>3. "grab" \in ReleaseRet
    BY DEF ReleaseRet
  <2>4. Moved(t) /\ Balanced(t) /\ Keeps(t) /\ th'[t].pc = "release" /\ th'[t].obj = th[t].q
    BY <1>1, <2>1, <2>2, <2>3, CallReleaseMoves DEF Core
  <2>5. /\ th'[t].pc \notin {"mark", "delete"}
        /\ th'[t].pc \in {"push", "release", "mark"} => th'[t].obj \in born
    BY <2>2, <2>4
  <2> QED  BY <1>1, <1>2, <2>1, <2>4, <2>5, CoreQuiet
<1>4. CASE gq # <<>>
  <2> DEFINE c == Head(gq)
  <2>1. gq' = Tail(gq) /\ \/ th[t].pc = "poll" /\ th' = [th EXCEPT ![t].pc = "grab", ![t].q = c]
                          \/ th[t].pc = "end" /\ th' = [th EXCEPT ![t].pc = "push_back", ![t].nq = c]
    BY <1>4 DEF GlobalmqPop, NextQueue, At
  <2>2. Tail(gq) \in Seq(born) /\ c \in Queued(gq) /\ c \in born
    BY <1>4, Facts, Popped
  <2>3. c \in Ctx /\ c \notin HeldBy(th[t])
    BY <2>2, Facts
  <2>4. /\ Moved(t) /\ Balanced(t) /\ Takes(t, c) /\ Separate(th'[t]) /\ th'[t].pc \notin Over
    <3> HIDE DEF c
    <3> QED  BY <1>1, <2>1, <2>3, TakeMoves DEF Core
  <2>5. Alone' /\ Owned' = Owned
    BY <1>4, <2>1, <2>4, Facts, AloneTakes DEF Core
  <2>6. th'[t].dq \in {NoCtx, th[t].dq} \cup release /\ gq' \in Seq(born)
    BY <2>1, <2>2, <2>4 DEF Takes
  <2>7. th'[t].pc \notin {"push", "release", "mark", "delete"}
    BY <2>4 DEF Over, Releasing
  <2> QED  BY <1>1, <1>2, <2>4, <2>5, <2>6, <2>7, CoreKept
<1> QED  BY <1>3, <1>4 DEF GlobalmqPop

(* A mailbox is put into the global queue by the thread that holds it. *)
LEMMA GiveCore ==
    ASSUME Core, NEW t \in Thread, PushBack(t) \/ PushNew(t) \/ MqRelease(t)
    PROVE  Core'
<1>1. UNCHANGED <<born, freed, total, reserved, remote, release, in_global, qfreed, mbox, registered, ready, ref, ops>>
  BY DEF PushBack, PushNew, MqRelease, ctxVars, harborVars
<1>2. /\ mbox' \in [Ctx -> Seq(Ids)] /\ \A d \in Ctx : mbox'[d] # <<>> => mbox[d] # <<>>
      /\ registered' \subseteq registered /\ ready' \subseteq born /\ ops' \in 0 .. MaxOps /\ ref' \in [Ctx -> Int]
      /\ \A c \in Ctx : ref'[c] = ref[c]
  BY <1>1, Facts DEF Core, Numbers
<1>3. CASE MqRelease(t) /\ Given(th[t]) \in release
  <2>1. /\ Moved(t) /\ Balanced(t) /\ Separate(th'[t]) /\ th'[t].pc \notin Over
        /\ HeldBy(th'[t]) = HeldBy(th[t]) /\ th'[t].dq = Given(th[t]) /\ gq' = gq
    BY <1>3, Facts, MqReleaseMoves DEF Core
  <2>2. Alone' /\ Owned' = Owned
    BY <2>1, Facts, AloneKept
  <2>3. th'[t].pc \notin {"push", "release", "mark", "delete"}
    BY <2>1 DEF Over, Releasing
  <2>4. gq' \in Seq(born) /\ th'[t].dq \in {NoCtx, th[t].dq} \cup release
    BY <1>3, <2>1, Facts
  <2> QED  BY <1>1, <1>2, <2>1, <2>2, <2>3, <2>4, CoreKept
<1>4. ASSUME NEW c, Moved(t), Balanced(t), Separate(th'[t]), Gives(t, c), gq' = Append(gq, c),
             \/ th'[t].pc \notin Over
             \/ th'[t].pc = "release" /\ th'[t].obj = c
      PROVE  Core'
  <2>1. c \in born
    BY <1>4, Facts DEF Gives
  <2>2. Alone' /\ Owned' = Owned
    BY <1>4, <2>1, Facts, AloneGives DEF Core
  <2>3. gq' \in Seq(born)
    BY <1>4, <2>1, Facts, Appended
  <2>4. /\ th'[t].pc \notin {"mark", "delete"}
        /\ th'[t].pc \in {"push", "release", "mark"} => th'[t].obj \in born
    BY <1>4, <2>1 DEF Over, Releasing
  <2>5. th'[t].dq \in {NoCtx, th[t].dq} \cup release
    BY <1>4 DEF Gives
  <2> QED  BY <1>1, <1>2, <1>4, <2>2, <2>3, <2>4, <2>5, CoreKept
<1>5. CASE MqRelease(t) /\ Given(th[t]) \notin release
  <2>1. /\ Moved(t) /\ Balanced(t) /\ Separate(th'[t]) /\ th'[t].pc \notin Over
        /\ Gives(t, Given(th[t])) /\ gq' = Append(gq, Given(th[t]))
    BY <1>5, Facts, MqReleaseMoves DEF Core
  <2> QED  BY <1>4, <2>1
<1>6. CASE PushNew(t)
  <2>1. gq' = Append(gq, th[t].new) /\ th[t].pc # "drop"
    BY <1>6 DEF PushNew
  <2>2. Moved(t) /\ Balanced(t) /\ Separate(th'[t]) /\ th'[t].pc \notin Over /\ Gives(t, th[t].new)
    BY <1>6, <2>1, Facts, HandOver DEF Core
  <2> QED  BY <1>4, <2>1, <2>2
<1>7. CASE PushBack(t)
  <2>1. gq' = Append(gq, th[t].q)
    BY <1>7 DEF PushBack
  <2>2. /\ Moved(t) /\ Balanced(t) /\ Gives(t, th[t].q) /\ Separate(th'[t])
        /\ th'[t].pc = "release" /\ th'[t].obj = th[t].q
    BY <1>7, Facts, RoundEnds DEF Core
  <2> QED  BY <1>4, <2>1, <2>2
<1> QED  BY <1>3, <1>5, <1>6, <1>7

(* A mailbox is left by its owner: it is empty, and out of the scheduler   *)
(* or freed.                                                               *)
LEMMA LoseCore ==
    ASSUME Core, NEW t \in Thread, PopEmpty(t) \/ DropDone(t)
    PROVE  Core'
<1> DEFINE c == IF th[t].pc = "drop" THEN th[t].dq ELSE th[t].q
<1>1. UNCHANGED <<born, freed, total, reserved, remote, release, gq, mbox, registered, ready, ref, ops>>
  BY DEF PopEmpty, DropDone, ctxVars, harborVars
<1>2. /\ Moved(t) /\ Balanced(t) /\ Separate(th'[t]) /\ Gives(t, c)
      /\ \/ th'[t].pc \notin Over
         \/ th'[t].pc = "release" /\ th'[t].obj = c
  <2>1. CASE PopEmpty(t)
    <3>1. th[t].pc # "drop"
      BY <2>1 DEF PopEmpty
    <3> QED  BY <2>1, <3>1, Facts, RoundEnds DEF Core
  <2>2. CASE DropDone(t)
    <3>1. th[t].pc = "drop"
      BY <2>2 DEF DropDone, At
    <3> QED  BY <2>2, <3>1, Facts, HandOver DEF Core
  <2> QED  BY <2>1, <2>2
<1>3. c \in born /\ mbox[c] = <<>> /\ in_global' = in_global \ {c}
      /\ \/ c \notin release /\ qfreed' = qfreed
         \/ c \in release /\ qfreed' = qfreed \cup {c}
  <2>1. c \in born
    BY <1>2, Facts DEF Gives
  <2>2. CASE PopEmpty(t)
    <3>1. th[t].pc \in {"pop_first", "pop"} /\ mbox[th[t].q] = <<>> /\ in_global' = in_global \ {th[t].q} /\ qfreed' = qfreed
      BY <2>2 DEF PopEmpty
    <3>2. Dispatched(th[t], c)
      BY <3>1 DEF Dispatched, Releasing
    <3>3. c \notin release
      BY <2>1, <3>2, Facts, Alive
    <3> QED  BY <2>1, <3>1, <3>3
  <2>3. CASE DropDone(t)
    <3>1. th[t].pc = "drop" /\ mbox[th[t].dq] = <<>> /\ in_global' = in_global \ {th[t].dq} /\ qfreed' = qfreed \cup {th[t].dq}
      BY <2>3 DEF DropDone, At
    <3>2. th[t].dq \in release
      BY <3>1, Facts DEF Core, Owners, Shaped, Base, Over, Releasing
    <3> QED  BY <2>1, <3>1, <3>2
  <2> QED  BY <2>2, <2>3
<1> HIDE DEF c
<1>4. Alone' /\ Owned' = Owned \ {c}
  BY <1>1, <1>2, Facts, AloneLoses
<1>5. Types' /\ Frames' /\ Counted' /\ Numbers'
  <2>1. Types' /\ Numbers'
    BY <1>1 DEF Types, Core, Numbers
  <2>2. Frames'
    BY <1>2 DEF Frames, Core, Moved
  <2> QED  BY <1>1, <1>2, <2>1, <2>2, CountsKept DEF Core
<1>6. Dead'
  <2>1. born \subseteq born' /\ born' \subseteq Ctx /\ UNCHANGED <<freed, release>>
    BY <1>1, Facts
  <2>2. \A d \in Ctx : ref'[d] = ref[d] \/ ref[d] # 0 \/ d \in born' \ born
    BY <1>1
  <2>3. /\ th'[t].pc \notin {"mark", "delete"}
        /\ th'[t].pc \in {"push", "release", "mark"} => th'[t].obj \in born'
    BY <1>1, <1>2, <1>3 DEF Over, Releasing
  <2> QED  BY <1>2, <2>1, <2>2, <2>3, DeadKept DEF Core
<1>7. Owners'
  <2>1. \A u \in Thread : th'[u].dq # NoCtx => th'[u].dq \in release'
    BY <1>1, <1>2 DEF Core, Owners, Moved, Gives
  <2>2. mbox' \in [Ctx -> Seq(Ids)] /\ \A d \in Ctx : mbox'[d] # <<>> => d \in in_global'
    BY <1>1, <1>3, Facts DEF Core, Owners
  <2>3. /\ Owned = (in_global \cup release) \ qfreed /\ in_global \subseteq born /\ qfreed \subseteq release
    BY DEF Core, Owners
  <2>4. Owned' = (in_global' \cup release') \ qfreed' /\ in_global' \subseteq born' /\ qfreed' \subseteq release'
    BY <1>1, <1>3, <1>4, <2>3
  <2> QED  BY <1>4, <2>1, <2>2, <2>4 DEF Owners
<1> QED  BY <1>5, <1>6, <1>7 DEF Core

(* skynet_mq_push and skynet_mq_mark_release schedule an idle mailbox. *)
LEMMA Scheduling ==
    ASSUME Core, NEW t \in Thread, NEW c \in born, c \notin release, Moved(t), Keeps(t),
           gq' = IF c \in in_global THEN gq ELSE Append(gq, c)
    PROVE  Alone' /\ Owned' = Owned \cup {c} /\ gq' \in Seq(born) /\ c \notin qfreed
<1>1. Owned = (in_global \cup release) \ qfreed /\ c \notin qfreed
  BY DEF Core, Owners
<1>2. Separate(th'[t]) /\ HeldBy(th'[t]) = HeldBy(th[t])
  BY Facts DEF Keeps, Fixed, Separate
<1>3. CASE c \in in_global
  <2>1. gq' = gq /\ Owned \cup {c} = Owned
    BY <1>1, <1>3
  <2> QED  BY <1>1, <1>2, <2>1, Facts, AloneKept
<1>4. CASE c \notin in_global
  <2>1. gq' = Append(gq, c) /\ c \notin Owned
    BY <1>1, <1>4
  <2>2. gq' \in Seq(born)
    BY <2>1, Facts, Appended
  <2>3. Alone' /\ Owned' = Owned \cup {c}
    BY <1>2, <2>1, Facts, AloneQueues DEF Core
  <2> QED  BY <1>1, <2>2, <2>3
<1> QED  BY <1>3, <1>4

(* Pushing a message to the mailbox of a context that is not dead *)
LEMMA PushCore ==
    ASSUME Core, NEW t \in Thread, NEW c \in born, NEW src \in Ids, MqPush(c, src), c \notin release,
           UNCHANGED <<ctxVars, release, qfreed>>, ops' \in 0 .. MaxOps,
           Moved(t), Balanced(t), Keeps(t), th'[t].pc \notin {"push", "mark", "delete"},
           th'[t].pc = "release" => th'[t].obj = c
    PROVE  Core'
<1>1. /\ UNCHANGED <<born, freed, total, reserved, remote, release, qfreed, registered, ready, ref>>
      /\ mbox' = [mbox EXCEPT ![c] = Append(@, src)] /\ in_global' = in_global \cup {c}
      /\ gq' = IF c \in in_global THEN gq ELSE Append(gq, c)
  BY DEF MqPush, ctxVars, harborVars
<1>2. /\ Moved(t) /\ Balanced(t) /\ Keeps(t)
      /\ th'[t].pc \notin {"push", "mark", "delete"} /\ (th'[t].pc = "release" => th'[t].obj = c)
  OBVIOUS
<1>3. c \in born /\ c \in Ctx
  BY Facts
<1>4. c \notin release
  OBVIOUS
<1>5. Alone' /\ Owned' = Owned \cup {c} /\ gq' \in Seq(born) /\ c \notin qfreed
  BY <1>1, <1>2, <1>3, <1>4, Scheduling
<1>6. mbox' \in [Ctx -> Seq(Ids)] /\ \A d \in Ctx : mbox'[d] # <<>> => mbox[d] # <<>> \/ d = c
  <2>1. mbox[c] \in Seq(Ids)
    BY <1>3, Facts
  <2>2. Append(mbox[c], src) \in Seq(Ids)
    BY <2>1
  <2> QED  BY <1>1, <1>3, <2>2, Facts
<1>7. Types' /\ Frames' /\ Counted' /\ Numbers'
  <2>1. Types' /\ Numbers'
    BY <1>1, <1>5 DEF Types, Core, Numbers
  <2>2. Frames'
    BY <1>2 DEF Frames, Core, Moved
  <2> QED  BY <1>1, <1>2, <2>1, <2>2, CountsKept DEF Core
<1>8. Dead'
  <2>1. born \subseteq born' /\ born' \subseteq Ctx /\ UNCHANGED <<freed, release>>
    BY <1>1, Facts
  <2>2. \A d \in Ctx : ref'[d] = ref[d] \/ ref[d] # 0 \/ d \in born' \ born
    BY <1>1
  <2>3. /\ th'[t].pc \notin {"mark", "delete"}
        /\ th'[t].pc \in {"push", "release", "mark"} => th'[t].obj \in born'
    BY <1>1, <1>2, <1>3
  <2> QED  BY <1>2, <2>1, <2>2, <2>3, DeadKept DEF Core
<1>9. Owners'
  <2>1. \A u \in Thread : th'[u].dq # NoCtx => th'[u].dq \in release'
    BY <1>1, <1>2 DEF Core, Owners, Moved, Keeps, Fixed
  <2>2. \A d \in Ctx : mbox'[d] # <<>> => d \in in_global'
    BY <1>1, <1>6 DEF Core, Owners
  <2>3. /\ Owned = (in_global \cup release) \ qfreed /\ in_global \subseteq born /\ qfreed \subseteq release
    BY DEF Core, Owners
  <2>4. Owned' = (in_global' \cup release') \ qfreed' /\ in_global' \subseteq born' /\ qfreed' \subseteq release'
    BY <1>1, <1>3, <1>5, <2>3
  <2> QED  BY <1>5, <1>6, <2>1, <2>2, <2>4 DEF Owners
<1> QED  BY <1>7, <1>8, <1>9 DEF Core

(* skynet_send pushes to a context that it has grabbed. *)
LEMMA SendPushCore == ASSUME Core, NEW t \in Thread, SendPush(t) PROVE Core'
<1> DEFINE c == th[t].obj
<1>1. /\ UNCHANGED <<ctxVars, release, qfreed>> /\ ops' = ops /\ MqPush(c, th[t].src)
  BY DEF SendPush
<1>2. /\ Moved(t) /\ Balanced(t) /\ Keeps(t)
      /\ th[t].pc = "push" /\ th'[t].pc = "release" /\ th'[t].obj = c
  BY SendPushMoves DEF Core
<1>3. c \in born /\ c \in Ctx /\ th[t].src \in Ids
  BY <1>2, Facts DEF Core, Dead, Frame
<1>4. c \notin release
  BY <1>2, <1>3, Alive DEF Grabbed
<1>5. ops' \in 0 .. MaxOps
  BY <1>1 DEF Core, Numbers
<1>6. th'[t].pc \notin {"push", "mark", "delete"}
  BY <1>2
<1> HIDE DEF c
<1> QED  BY <1>1, <1>2, <1>3, <1>4, <1>5, <1>6, PushCore

(* A step that leaves every frame as it is *)
LEMMA StillMoves ==
    ASSUME Types, Frames, NEW t \in Thread, UNCHANGED <<th, ref, registered>>
    PROVE  Moved(t) /\ Balanced(t) /\ Keeps(t)
<1>1. Moved(t) /\ Keeps(t)
  BY DEF Moved, Keeps, Fixed, Frames
<1>2. \A c \in Ctx : Refs(th[t], c) = Refs(th[t], c)
  OBVIOUS
<1> QED  BY <1>1, <1>2, Even

(* skynet_harbor_send pushes to REMOTE, that the node has reserved. *)
LEMMA SendRemoteCore == ASSUME Core, NEW t \in Thread, UserSendRemote(t) PROVE Core'
<1>1. /\ UNCHANGED <<ctxVars, release, qfreed, th>> /\ ops < MaxOps /\ ops' = ops + 1
      /\ remote # NoCtx /\ MqPush(remote, Self(t)) /\ th[t].pc \in UserCode
  BY DEF UserSendRemote, CanCall
<1>2. Moved(t) /\ Balanced(t) /\ Keeps(t) /\ th'[t] = th[t]
  BY <1>1, StillMoves DEF Core, ctxVars
<1>3. remote \in reserved /\ remote \in Ctx
  BY <1>1, Facts DEF Core, Numbers
<1>4. remote \in born /\ remote \notin release
  BY <1>3, Alive
<1>5. Self(t) \in Ids
  BY Facts DEF Self, Frame
<1>6. ops' \in 0 .. MaxOps
  BY <1>1, ThreadAssumption DEF Core, Numbers
<1>7. th'[t].pc \notin {"push", "release", "mark", "delete"}
  BY <1>1, <1>2 DEF UserCode
<1> QED  BY <1>1, <1>2, <1>4, <1>5, <1>6, <1>7, PushCore

(* skynet_context_reserve gives the node a reference, and counts the       *)
(* context no more.                                                        *)
LEMMA ReserveCore == ASSUME Core, NEW t \in Thread, Reserve(t) PROVE Core'
<1> DEFINE c == th[t].new
<1>1. /\ th[t].pc = "init" /\ c \in Harbor /\ c \notin reserved
      /\ ref' = [ref EXCEPT ![c] = @ + 1] /\ total' = total - 1
      /\ reserved' = reserved \cup {c} /\ remote' = c
      /\ UNCHANGED <<registered, ready, born, freed, mqVars, ops, th>>
  BY DEF Reserve, At
<1>2. c \in Ctx
  BY <1>1, CtxAssumption
<1>3. Started(th[t], c)
  BY <1>1 DEF Started, Base, Over, Releasing
<1> HIDE DEF c
<1>4. ref[c] # 0 /\ c \in born /\ c \notin release /\ c \notin freed
  BY <1>2, <1>3, Alive
<1>5. ref \in [Ctx -> Int] /\ ref' \in [Ctx -> Int] /\ \A d \in Ctx : ref'[d] = ref[d] + One(d = c)
  <2>1. ref \in [Ctx -> Int]
    BY Facts
  <2> QED  BY <1>1, <1>2, <2>1 DEF One
<1>6. Types' /\ Frames'
  BY <1>1, <1>5 DEF Core, Types, Frames, mqVars
<1>7. Counted'
  <2> SUFFICES ASSUME NEW d \in Ctx PROVE ref'[d] = Cardinality(All(registered', reserved', th', d))
    BY HoldersFormNext DEF Counted
  <2> DEFINE n == Cardinality(Held3(th, Thread \ {t}, d))
  <2>1. ref[d] = n + Refs(th[t], d) + One(d \in registered) + One(d \in reserved)
    BY CountedAs DEF Core
  <2>2. Cardinality(All(registered, reserved', th, d))
        = n + Refs(th[t], d) + One(d \in registered) + One(d \in reserved')
    <3>1. Cardinality(All(registered, reserved', th, d)) = Tally(registered, reserved', th, t, d)
      BY CountHolders, Zenon
    <3> QED  BY <3>1 DEF Tally
  <2>3. IsFiniteSet(Held3(th, Thread \ {t}, d))
    BY CountHolders, Zenon
  <2>4. n \in Nat /\ Refs(th[t], d) \in Int /\ One(d \in registered) \in Int
    BY <2>3, FS_CardinalityType DEF Refs, One
  <2>5. One(d \in reserved') = One(d \in reserved) + One(d = c)
    BY <1>1 DEF One
  <2>6. One(d \in reserved) \in Int /\ One(d = c) \in Int
    BY DEF One
  <2> HIDE DEF n
  <2>7. Cardinality(All(registered', reserved', th', d)) = Cardinality(All(registered, reserved', th, d))
    BY <1>1
  <2> QED  BY <1>5, <2>1, <2>2, <2>4, <2>5, <2>6, <2>7
<1>8. Dead'
  <2>1. /\ \A d \in Ctx \ born : ref[d] = 0
        /\ \A d \in release : d \in born /\ ref[d] = 0
        /\ freed \subseteq release
        /\ \A u \in Thread :
              /\ th[u].pc \in {"push"} \cup Releasing => th[u].obj \in born
              /\ Dying(u) => ref[th[u].obj] = 0 /\ th[u].obj \notin freed
              /\ th[u].pc = "mark" => th[u].obj \notin release
              /\ th[u].pc = "delete" => th[u].obj \in release
        /\ \A u, v \in Thread : Dying(u) /\ Dying(v) /\ th[u].obj = th[v].obj => u = v
        /\ born \subseteq Ctx
    BY Facts DEF Core, Dead
  <2>2. \A d \in Ctx : d # c => ref'[d] = ref[d]
    BY <1>5 DEF One
  <2>3. UNCHANGED <<th, born, freed, release>>
    BY <1>1 DEF mqVars
  <2>4. \A u \in Thread : Dying(u)' = Dying(u)
    BY <2>3 DEF Dying
  <2>5. ASSUME NEW u \in Thread, Dying(u) PROVE th[u].obj \in Ctx /\ th[u].obj # c
    BY <1>4, <2>1, <2>5 DEF Dying, Releasing
  <2>6. \A d \in Ctx \ born : ref'[d] = 0
    BY <1>4, <2>1, <2>2
  <2>7. \A d \in release : d \in born /\ ref'[d] = 0
    BY <1>4, <2>1, <2>2
  <2>8. \A u \in Thread : Dying(u) => ref'[th[u].obj] = 0 /\ th[u].obj \notin freed
    BY <2>1, <2>2, <2>5
  <2> QED  BY <2>1, <2>3, <2>4, <2>6, <2>7, <2>8 DEF Dead
<1>9. Owners'
  <2>1. UNCHANGED <<th, gq, mbox, in_global, release, qfreed, born>>
    BY <1>1 DEF mqVars
  <2> QED  BY <2>1 DEF Core, Owners, Alone, Owned
<1>10. Numbers'
  <2>1. IsFiniteSet((born \ freed) \ reserved)
    BY Facts, CtxAssumption, FS_Subset
  <2>2. c \in (born \ freed) \ reserved /\ (born' \ freed') \ reserved' = ((born \ freed) \ reserved) \ {c}
    BY <1>1, <1>4
  <2>3. Cardinality(((born \ freed) \ reserved) \ {c}) = Cardinality((born \ freed) \ reserved) - 1
    BY <2>1, <2>2, FS_RemoveElement
  <2>4. total' = Cardinality((born' \ freed') \ reserved')
    BY <1>1, <2>2, <2>3 DEF Core, Numbers
  <2>5. ready' \subseteq born' /\ ops' \in 0 .. MaxOps /\ reserved' \subseteq born'
        /\ remote' \in reserved' \cup {NoCtx}
    BY <1>1, <1>4 DEF Core, Numbers
  <2> QED  BY <2>4, <2>5 DEF Numbers
<1> QED  BY <1>6, <1>7, <1>8, <1>9, <1>10 DEF Core

(* Freeing a context and its mailbox *)
LEMMA DeleteCore == ASSUME Core, NEW t \in Thread, MarkRelease(t) \/ DeleteContext(t) PROVE Core'
<1> DEFINE c == th[t].obj
<1>1. UNCHANGED <<born, reserved, remote, qfreed, registered, ready, ref, ops, mbox, in_global>>
  BY DEF MarkRelease, DeleteContext, ctxVars, harborVars, mqVars
<1>2. /\ Moved(t) /\ Balanced(t) /\ Keeps(t)
      /\ \/ th[t].pc = "mark" /\ th'[t].pc = "delete" /\ th'[t].obj = c
         \/ th[t].pc = "delete" /\ th'[t].pc \notin Over
  BY MarkReleaseMoves, DeleteContextMoves DEF Core
<1>3. /\ c \in born /\ c \in Ctx /\ c \notin freed
      /\ th[t].pc = "mark" => c \notin release
      /\ th[t].pc = "delete" => c \in release /\ c \notin reserved
  <2>1. /\ c \in born /\ c \in Ctx /\ c \notin freed
        /\ th[t].pc = "mark" => c \notin release
        /\ th[t].pc = "delete" => c \in release
    BY <1>2, Facts DEF Core, Dead, Dying, Releasing
  <2> HIDE DEF c
  <2> QED  BY <2>1, Alive
<1>4. Frames' /\ Counted'
  <2>1. Frames'
    BY <1>2 DEF Frames, Core, Moved
  <2> QED  BY <1>1, <1>2, <2>1, CountsKept DEF Core
<1>5. \A u \in Thread : th'[u].dq # NoCtx => th'[u].dq \in release
  BY <1>1, <1>2 DEF Core, Owners, Moved, Keeps, Fixed
<1>6. /\ Owned = (in_global \cup release) \ qfreed /\ in_global \subseteq born /\ qfreed \subseteq release
      /\ mbox \in [Ctx -> Seq(Ids)] /\ \A d \in Ctx : mbox[d] # <<>> => d \in in_global
  BY DEF Core, Owners
<1>7. CASE MarkRelease(t)
  <2>1. /\ th[t].pc = "mark" /\ release' = release \cup {c} /\ UNCHANGED <<freed, total>>
        /\ gq' = IF c \in in_global THEN gq ELSE Append(gq, c)
    BY <1>7 DEF MarkRelease, At, ctxVars, harborVars
  <2>2. Alone' /\ Owned' = Owned \cup {c} /\ gq' \in Seq(born) /\ c \notin qfreed
    BY <1>2, <1>3, <2>1, Scheduling
  <2>3. Dead'
    BY <1>1, <1>2, <2>1, DeadDeleted DEF Core
  <2> HIDE DEF c
  <2>4. Types' /\ Numbers'
    BY <1>1, <2>1, <2>2 DEF Types, Core, Numbers
  <2>5. Owned' = (in_global' \cup release') \ qfreed' /\ qfreed' \subseteq release'
    BY <1>1, <1>6, <2>1, <2>2
  <2>6. Owners'
    BY <1>1, <1>5, <1>6, <2>1, <2>2, <2>5 DEF Owners
  <2> QED  BY <1>4, <2>3, <2>4, <2>6 DEF Core
<1>8. CASE DeleteContext(t)
  <2>1. /\ th[t].pc = "delete" /\ freed' = freed \cup {c} /\ total' = total - 1
        /\ UNCHANGED <<release, gq>>
    BY <1>8 DEF DeleteContext, At, mqVars
  <2>2. Alone' /\ Owned' = Owned
    <3>1. Separate(th'[t]) /\ HeldBy(th'[t]) = HeldBy(th[t])
      BY <1>2, Facts DEF Keeps, Fixed, Separate
    <3> QED  BY <1>2, <2>1, <3>1, Facts, AloneKept
  <2>3. Dead'
    BY <1>1, <1>2, <2>1, DeadDeleted DEF Core
  <2> HIDE DEF c
  <2>4. Types'
    BY <1>1, <2>1 DEF Types, Core
  <2>5. total' = Cardinality((born' \ freed') \ reserved')
    <3> DEFINE S == (born \ freed) \ reserved
    <3>1. IsFiniteSet(S)
      BY Facts, CtxAssumption, FS_Subset
    <3>2. (born' \ freed') \ reserved' = S \ {c} /\ c \in S
      BY <1>1, <1>3, <2>1
    <3>3. Cardinality(S \ {c}) = Cardinality(S) - 1
      BY <3>1, <3>2, FS_RemoveElement
    <3> QED  BY <2>1, <3>2, <3>3 DEF Core, Numbers
  <2>6. Numbers'
    BY <1>1, <2>5 DEF Core, Numbers
  <2>7. Owners'
    BY <1>1, <1>5, <1>6, <2>1, <2>2 DEF Owners
  <2> QED  BY <1>4, <2>3, <2>4, <2>6, <2>7 DEF Core
<1> QED  BY <1>7, <1>8

(* The start of a launch *)
LEMMA UserLaunchCore == ASSUME Core, NEW t \in Thread, UserLaunch(t) PROVE Core'
<1>1. PICK c \in Ctx \ born : NewContext(t, c) /\ in_global' = in_global \cup {c}
  BY DEF UserLaunch
<1>2. /\ th[t].pc = "callback" /\ ops' \in 0 .. MaxOps /\ total' = total + 1
      /\ born' = born \cup {c} /\ registered' = registered \cup {c} /\ ref' = [ref EXCEPT ![c] = 2]
      /\ UNCHANGED <<ready, freed, reserved, remote, mbox, release, qfreed, gq>>
  <2>1. th[t].pc = "callback" /\ ops < MaxOps /\ ops' = ops + 1 /\ total' = total + 1
    BY DEF UserLaunch, At, CanCall
  <2>2. ops' \in 0 .. MaxOps
    BY <2>1, ThreadAssumption DEF Core, Numbers
  <2>3. /\ born' = born \cup {c} /\ registered' = registered \cup {c} /\ ref' = [ref EXCEPT ![c] = 2]
        /\ UNCHANGED <<ready, freed, reserved, remote, mbox, release, qfreed, gq>>
    BY <1>1 DEF NewContext, harborVars
  <2> QED  BY <2>1, <2>2, <2>3
<1>3. ref[c] = 0 /\ c \in Ctx /\ c \notin born
  BY <1>1 DEF Core, Dead
<1>4. /\ Moved(t) /\ Balanced(t) /\ Takes(t, c) /\ Separate(th'[t]) /\ th'[t].pc = "init"
  BY <1>1, <1>2, <1>3, Facts, UserLaunchMoves DEF Core
<1>5. /\ Owned = (in_global \cup release) \ qfreed /\ in_global \subseteq born /\ qfreed \subseteq release
      /\ release \subseteq born /\ freed \subseteq born
  BY DEF Core, Owners, Dead
<1>6. c \notin Owned
  BY <1>3, <1>5
<1>7. Alone' /\ Owned' = Owned \cup {c}
  BY <1>2, <1>4, <1>6, Facts, AloneGains
<1>8. Types'
  <2>1. ref' \in [Ctx -> Int]
    BY <1>2, <1>3, Facts
  <2>2. gq' \in Seq(born')
    BY <1>2, Facts
  <2> QED  BY <1>2, <1>3, <2>1, <2>2, Facts DEF Types
<1>9. Frames' /\ Counted'
  <2>1. Frames'
    BY <1>4 DEF Frames, Core, Moved
  <2> QED  BY <1>2, <1>4, <2>1, CountsKept DEF Core
<1>10. Dead'
  <2>1. born \subseteq born' /\ born' \subseteq Ctx /\ UNCHANGED <<freed, release>>
    BY <1>2, <1>3, Facts
  <2>2. \A d \in Ctx : ref'[d] = ref[d] \/ ref[d] # 0 \/ d \in born' \ born
    BY <1>2, <1>3, Facts
  <2>3. th'[t].pc \notin {"push", "release", "mark", "delete"}
    BY <1>4
  <2> QED  BY <1>4, <2>1, <2>2, <2>3, DeadKept DEF Core
<1>11. Owners'
  <2>1. \A u \in Thread : th'[u].dq # NoCtx => th'[u].dq \in release'
    BY <1>2, <1>4 DEF Core, Owners, Moved, Takes
  <2>2. mbox' \in [Ctx -> Seq(Ids)] /\ \A d \in Ctx : mbox'[d] # <<>> => d \in in_global'
    BY <1>1, <1>2 DEF Core, Owners
  <2>3. Owned' = (in_global' \cup release') \ qfreed' /\ in_global' \subseteq born' /\ qfreed' \subseteq release'
    BY <1>1, <1>2, <1>3, <1>5, <1>7
  <2> QED  BY <1>7, <2>1, <2>2, <2>3 DEF Owners
<1>12. Numbers'
  <2> DEFINE S == (born \ freed) \ reserved
  <2>1. IsFiniteSet(S)
    BY Facts, CtxAssumption, FS_Subset
  <2>2. (born' \ freed') \ reserved' = S \cup {c} /\ c \notin S
    BY <1>2, <1>3, <1>5 DEF Core, Numbers
  <2>3. Cardinality(S \cup {c}) = Cardinality(S) + 1
    BY <2>1, <2>2, FS_AddElement
  <2> QED  BY <1>2, <2>2, <2>3 DEF Core, Numbers
<1> QED  BY <1>8, <1>9, <1>10, <1>11, <1>12 DEF Core

(* Every step keeps the invariant. *)
LEMMA CoreNext == Core /\ [Next]_vars => Core'
<1> SUFFICES ASSUME Core, [Next]_vars PROVE Core'
  OBVIOUS
<1>1. CASE UNCHANGED vars
  <2>1. UNCHANGED <<registered, ref, ready, born, freed, total, reserved, remote, mbox, in_global, release, qfreed, gq, ops, th>>
    BY <1>1 DEF vars, ctxVars, harborVars, mqVars
  <2>2. (\A c \in Ctx : Cardinality(All(registered', reserved', th', c)) = Cardinality(All(registered, reserved, th, c))) /\ Owned' = Owned
    BY <2>1 DEF Owned
  <2>3. Counted'
    BY <2>1, <2>2, HoldersForm, HoldersFormNext DEF Core, Counted
  <2>4. Alone' /\ Types' /\ Frames' /\ Dead' /\ Numbers'
    BY <2>1 DEF Core, Owners, Alone, Types, Frames, Dead, Dying, Numbers
  <2>5. Owners'
    BY <2>1, <2>2, <2>4 DEF Core, Owners
  <2> QED  BY <2>3, <2>4, <2>5 DEF Core
<1>2. ASSUME NEW t \in Worker, WorkerStep(t) PROVE Core'
  <2>1. t \in Thread
    BY DEF Thread
  <2>2. CASE Send(t)
    BY <2>1, <2>2, SendGrabCore, SendPushCore DEF Send
  <2>3. CASE Delete(t)
    BY <2>1, <2>3, ReleaseCore, DeleteCore DEF Delete
  <2>4. CASE User(t)
    BY <2>1, <2>4, UserCore, SendRemoteCore, RetireCore DEF User
  <2>5. CASE Launch(t)
    BY <2>1, <2>5, UserLaunchCore, ReserveCore, LaunchCore, RoundCore, GiveCore, RetireCore DEF Launch
  <2>6. CASE Drop(t)
    BY <2>1, <2>6, GiveCore, UserCore, LoseCore DEF Drop
  <2>7. CASE Round(t)
    BY <2>1, <2>7, TakeCore, DispatchGrabCore, RoundCore, LoseCore, GiveCore DEF Round
  <2> QED  BY <1>2, <2>2, <2>3, <2>4, <2>5, <2>6, <2>7 DEF WorkerStep
<1>3. ASSUME NEW t \in Outsider, OutsiderSend(t) \/ OutsiderStep(t) PROVE Core'
  <2>1. t \in Thread
    BY DEF Thread
  <2> QED  BY <1>3, <2>1, UserCore, SendGrabCore, SendPushCore, ReleaseCore, DeleteCore
           DEF OutsiderStep, Send, Delete
<1> QED  BY <1>1, <1>2, <1>3 DEF Next

-----------------------------------------------------------------------------
(* The order of a launch and the first dispatch *)

(* One step of one thread of the node *)
Step(t) == \/ t \in Worker /\ WorkerStep(t)
           \/ t \in Outsider /\ (OutsiderSend(t) \/ OutsiderStep(t))

(* A launch prepares its service until the service is ready or retired. *)
LEMMA PreparingKept ==
    ASSUME Core, Ready, NEW t \in Thread, Step(t), NEW c \in Ctx, Preparing(th[t], c)
    PROVE  Preparing(th'[t], c) \/ c \in ready' \/ c \notin registered'
<1> DEFINE g == th[t]
<1>1. /\ g \in Frame /\ Shaped(g) /\ th \in [Thread -> Frame] /\ g.new = c /\ c # NoCtx
      /\ \/ g.pc \in {"init", "retire", "set_init", "retire_new"}
         \/ g.pc \in Over /\ g.ret \in {"init", "retire", "set_init", "retire_new"}
  BY Facts, CtxAssumption DEF Preparing, Base, Core, Frames
<1>2. CASE SendGrab(t) \/ SendPush(t) \/ Release(t) \/ MarkRelease(t)
  <2>1. g.pc \in {"grab_dst", "push", "release", "mark"} /\ g.ret \in {"init", "retire", "set_init", "retire_new"}
    BY <1>1, <1>2 DEF SendGrab, SendPush, Release, MarkRelease, At, Over, Releasing
  <2>2. th'[t].new = c /\ \/ th'[t].pc = g.ret
                          \/ th'[t].pc \in {"push", "release", "mark", "delete"} /\ th'[t].ret = g.ret
    BY <1>1, <1>2 DEF SendGrab, SendPush, Release, MarkRelease, Resume, Frame
  <2> QED  BY <2>1, <2>2 DEF Preparing, Base, Over, Releasing
<1>3. CASE DeleteContext(t)
  <2>1. g.pc = "delete" /\ registered' = registered /\ g.ret \in {"init", "retire", "set_init", "retire_new"}
    BY <1>1, <1>3 DEF DeleteContext, At
  <2>2. CASE g.ret = "set_init"
    <3>1. g.obj = c
      BY <1>1, <2>1, <2>2 DEF Ready, OwnRelease, Releasing
    <3>2. ref[c] = 0
      BY <2>1, <3>1 DEF Core, Dead, Dying
    <3> QED  BY <2>1, <3>2, Alive
  <2>3. CASE g.ret # "set_init"
    <3>1. th'[t].new = c /\ th'[t].pc = g.ret
      BY <1>1, <1>3, <2>3 DEF DeleteContext, Resume, Frame
    <3> QED  BY <2>1, <3>1 DEF Preparing, Base, Over, Releasing
  <2> QED  BY <2>2, <2>3
<1>4. CASE UserSend(t) \/ UserKill(t) \/ Retire(t)
  <2>1. g.pc \in {"init", "retire"}
    BY <1>1, <1>4 DEF UserSend, UserKill, Retire, CanCall, UserCode, At, Over, Releasing
  <2>2. th'[t].new = c /\ \/ th'[t].pc \in {"init", "retire"}
                          \/ th'[t].pc \in {"grab_dst", "release"} /\ th'[t].ret \in {"init", "retire"}
    <3>1. CASE UserSend(t)
      BY <1>1, <2>1, <3>1 DEF UserSend, CanCall, UserCode, CallSend, Frame
    <3>2. CASE UserKill(t)
      BY <1>1, <2>1, <3>2 DEF UserKill, CallSend, Frame
    <3>3. CASE Retire(t)
      BY <1>1, <2>1, <3>3 DEF Retire, RetireThen, CallRelease, Resume, Frame
    <3> QED  BY <1>4, <3>1, <3>2, <3>3
  <2> QED  BY <2>2 DEF Preparing, Base, Over, Releasing
<1>5. CASE InitSucceeds(t) \/ InitFails(t)
  <2>1. th'[t].new = c /\ th'[t].pc = "release" /\ th'[t].ret \in {"set_init", "retire_new"}
    BY <1>1, <1>5 DEF InitSucceeds, InitFails, CallRelease, Frame
  <2> QED  BY <2>1 DEF Preparing, Base, Over, Releasing
<1>6. CASE SetInit(t)
  BY <1>1, <1>6 DEF SetInit
<1>7. CASE RetireNew(t)
  BY <1>1, <1>7 DEF RetireNew, RetireThen
<1>8. g.pc \in {"init", "retire", "set_init", "retire_new", "grab_dst", "push", "release", "mark", "delete"}
  BY <1>1 DEF Over, Releasing
<1>9. /\ ~UserLaunch(t) /\ ~PushNew(t) /\ ~Launched(t) /\ ~Drop(t) /\ ~Round(t) /\ ~OutsiderSend(t)
  <2>1. ~UserLaunch(t) /\ ~PushNew(t) /\ ~Launched(t) /\ ~OutsiderSend(t)
    BY <1>8 DEF UserLaunch, PushNew, Launched, OutsiderSend, At
  <2>2. ~Drop(t)
    BY <1>8 DEF Drop, MqRelease, DropMessage, DropDone, At
  <2>3. ~Round(t)
    BY <1>8 DEF Round, GlobalmqPop, DispatchGrab, PopMessage, PopEmpty, Length, CallbackReturns, NextQueue,
                PushBack, At
  <2> QED  BY <2>1, <2>2, <2>3
<1>10. CASE UserSendRemote(t) \/ Reserve(t)
  BY <1>10 DEF UserSendRemote, Reserve
<1> QED  BY <1>2, <1>3, <1>4, <1>5, <1>6, <1>7, <1>9, <1>10
         DEF Step, WorkerStep, OutsiderStep, Send, Delete, User, Launch

(* Only a launch calls the release after which it sets ctx->init. *)
LEMMA OwnReleaseKept ==
    ASSUME Core, Ready, NEW t \in Thread, Step(t)
    PROVE  OwnRelease(th'[t])
<1> DEFINE g == th[t]
<1>1. g \in Frame /\ Shaped(g) /\ th \in [Thread -> Frame] /\ OwnRelease(g)
  BY Facts DEF Core, Frames, Ready
<1> SUFFICES ASSUME th'[t].pc \in Releasing, th'[t].ret = "set_init" PROVE th'[t].obj = th'[t].new
  BY DEF OwnRelease
<1>2. th'[t].pc \in {"release", "mark", "delete"}
  BY DEF Releasing
<1>3. CASE SendGrab(t) \/ DeleteContext(t)
  BY <1>2, <1>3, SendGrabMoves, DeleteContextMoves DEF Core, Over, Releasing
<1>4. CASE SendPush(t)
  <2>1. g.pc = "push" /\ th'[t].ret = g.ret
    BY <1>1, <1>4 DEF SendPush, At, Frame
  <2> QED  BY <1>1, <2>1 DEF Shaped, CallRet
<1>5. CASE Release(t) \/ MarkRelease(t)
  <2>1. g.pc \in Releasing
    BY <1>5 DEF Release, MarkRelease, At, Releasing
  <2>2. g.ret \in ReleaseRet
    BY <1>1, <2>1 DEF Shaped
  <2>3. th'[t].ret = g.ret /\ th'[t].obj = g.obj /\ th'[t].new = g.new
    <3>1. CASE Release(t)
      BY <1>1, <1>2, <2>2, <3>1 DEF Release, Resume, Frame, ReleaseRet, CallRet
    <3>2. CASE MarkRelease(t)
      BY <1>1, <3>2 DEF MarkRelease, Frame
    <3> QED  BY <1>5, <3>1, <3>2
  <2> QED  BY <1>1, <2>1, <2>3 DEF OwnRelease
<1>6. CASE Retire(t) \/ RetireNew(t)
  <2>1. th'[t].ret \in {"callback", "init", "mq_release", "none"}
    BY <1>1, <1>6 DEF Retire, RetireNew, RetireThen, CallRelease, Resume, Frame
  <2> QED  BY <2>1
<1>7. CASE InitSucceeds(t) \/ InitFails(t)
  BY <1>1, <1>7 DEF InitSucceeds, InitFails, CallRelease, Frame
<1>8. CASE PopEmpty(t) \/ PushBack(t) \/ NextQueue(t)
  <2>1. th'[t].pc = "release" => th'[t].ret \in {"poll", "grab"}
    BY <1>1, <1>8 DEF PopEmpty, PushBack, NextQueue, CallRelease, Frame
  <2>2. th'[t].pc \in {"release", "push_back"}
    BY <1>1, <1>8 DEF PopEmpty, PushBack, NextQueue, CallRelease, Frame
  <2> QED  BY <1>2, <2>1, <2>2
<1>9. CASE UserSend(t) \/ UserKill(t) \/ OutsiderSend(t) \/ DropMessage(t)
  BY <1>2, <1>9, Facts, UserMoves DEF Core
<1>10. CASE SetInit(t) \/ (t \in Worker /\ PopMessage(t)) \/ Length(t) \/ CallbackReturns(t)
  BY <1>2, <1>10, Facts, RoundMoves DEF Core, Over, Releasing
<1>11. CASE UserLaunch(t)
  BY <1>1, <1>2, <1>11 DEF UserLaunch, NewContext, Frame
<1>12. CASE PushNew(t) \/ DropDone(t)
  BY <1>2, <1>12, Facts, HandOver DEF Core, Over, Releasing
<1>13. CASE Launched(t)
  BY <1>1, <1>2, <1>13 DEF Launched, Frame
<1>14. CASE MqRelease(t)
  BY <1>2, <1>14, Facts, MqReleaseMoves DEF Core, Over, Releasing
<1>15. CASE GlobalmqPop(t)
  BY <1>1, <1>2, <1>15 DEF GlobalmqPop, Frame
<1>16. CASE DispatchGrab(t)
  BY <1>2, <1>16, DispatchGrabMoves DEF Core, Over, Releasing
<1>17. CASE UserSendRemote(t) \/ Reserve(t)
  BY <1>1, <1>2, <1>17 DEF UserSendRemote, Reserve, OwnRelease, Releasing
<1> QED  BY <1>3, <1>4, <1>5, <1>6, <1>7, <1>8, <1>9, <1>10, <1>11, <1>12, <1>13, <1>14, <1>15, <1>16, <1>17
         DEF Step, WorkerStep, OutsiderStep, Send, Delete, User, Launch, Drop, Round

(* A worker dispatches what it has grabbed. *)
LEMMA DispatchedKept ==
    ASSUME Core, NEW t \in Thread, Step(t), NEW c \in Ctx, Dispatched(th'[t], c)
    PROVE  Dispatched(th[t], c) \/ (th[t].pc = "grab" /\ c = th[t].q /\ c \in registered)
<1>1. CASE Send(t) \/ Delete(t)
  <2>1. CASE Release(t)
    <3>1. th[t].pc = "release" /\ th[t].obj \in Ctx
      BY <2>1, Facts DEF Release, At, Core, Dead, Releasing
    <3> QED  BY <2>1, <3>1, ReleaseMoves DEF Core, Keeps
  <2> QED  BY <1>1, <2>1, SendGrabMoves, SendPushMoves, MarkReleaseMoves, DeleteContextMoves
           DEF Send, Delete, Core, Keeps
<1>2. CASE User(t) \/ OutsiderSend(t)
  <2>1. CASE UserSendRemote(t)
    BY <2>1 DEF UserSendRemote
  <2> QED  BY <1>2, <2>1, Facts, UserMoves, RetireMoves DEF User, Core, Keeps
<1>3. CASE InitSucceeds(t) \/ InitFails(t) \/ Launched(t) \/ RetireNew(t)
  BY <1>3, Facts, LaunchMoves, RetireMoves DEF Core, Keeps
<1>4. CASE SetInit(t) \/ (t \in Worker /\ PopMessage(t)) \/ Length(t) \/ CallbackReturns(t)
  BY <1>4, Facts, RoundMoves DEF Core, Keeps
<1>5. CASE UserLaunch(t)
  <2>1. PICK d \in Ctx \ born : NewContext(t, d)
    BY <1>5 DEF UserLaunch
  <2>2. th[t].pc = "callback" /\ ref[d] = 0
    BY <1>5 DEF UserLaunch, At, Core, Dead
  <2> QED  BY <2>1, <2>2, Facts, UserLaunchMoves DEF Core
<1>6. CASE Drop(t) \/ PushNew(t)
  <2>1. CASE DropMessage(t)
    BY <2>1, Facts, UserMoves DEF Core, Keeps
  <2> QED  BY <1>6, <2>1, Facts, MqReleaseMoves, HandOver DEF Drop, Core
<1>7. CASE PopEmpty(t) \/ PushBack(t)
  BY <1>7, Facts, RoundEnds DEF Core
<1>8. CASE DispatchGrab(t)
  BY <1>8, DispatchGrabMoves DEF Core
<1>9. CASE NextQueue(t) \/ GlobalmqPop(t)
  <2> DEFINE g == th[t]
  <2>1. g \in Frame /\ Shaped(g) /\ th \in [Thread -> Frame] /\ c # NoCtx
    BY Facts, CtxAssumption DEF Core, Frames
  <2>2. CASE GlobalmqPop(t)
    <3>1. th'[t].pc = "grab"
      BY <2>1, <2>2 DEF GlobalmqPop, Frame
    <3> QED  BY <3>1 DEF Dispatched
  <2>3. CASE NextQueue(t)
    <3>1. g.pc = "end" /\ th'[t].q = g.q
      BY <2>1, <2>3 DEF NextQueue, CallRelease, At, Frame
    <3> QED  BY <2>1, <3>1 DEF Dispatched, Releasing
  <2> QED  BY <1>9, <2>2, <2>3
<1>10. CASE Reserve(t)
  BY <1>10 DEF Reserve
<1> QED  BY <1>1, <1>2, <1>3, <1>4, <1>5, <1>6, <1>7, <1>8, <1>9, <1>10
         DEF Step, WorkerStep, OutsiderStep, Send, Delete, Launch, Round

(* Every step keeps what is dispatched initialised. *)
LEMMA ReadyNext == Core /\ Ready /\ [Next]_vars => Ready'
<1> SUFFICES ASSUME Core, Ready, [Next]_vars PROVE Ready'
  OBVIOUS
<1>1. CASE UNCHANGED vars
  BY <1>1 DEF Ready, vars, ctxVars, harborVars
<1>2. ASSUME NEW t \in Thread, Step(t) PROVE Ready'
  <2>1. \A u \in Thread \ {t} : th'[u] = th[u]
    <3>1. th \in [Thread -> Frame]
      BY DEF Core, Frames
    <3>2. \E f : th' = [th EXCEPT ![t] = f]
      <4>1. CASE Send(t) \/ Delete(t)
        BY <4>1 DEF Send, Delete, SendGrab, SendPush, Release, MarkRelease, DeleteContext, Resume
      <4>2. CASE User(t) \/ OutsiderSend(t)
        <5>1. ASSUME NEW d, NEW x, NEW r, CallSend(t, d, x, r) PROVE \E f : th' = [th EXCEPT ![t] = f]
          BY <3>1, <5>1 DEF CallSend
        <5>2. CASE \E d, x, r : CallSend(t, d, x, r)
          BY <5>1, <5>2
        <5>3. \/ \E d, x, r : CallSend(t, d, x, r)
              \/ UserSendRemote(t) \/ Retire(t)
              \/ \E v : th' = [th EXCEPT ![t].pc = "retire", ![t].src = v]
          BY <4>2, Zenon DEF User, UserSend, OutsiderSend, UserKill
        <5>4. CASE UserSendRemote(t) \/ Retire(t)
          BY <3>1, <5>4 DEF UserSendRemote, Retire, RetireThen, CallRelease, Resume
        <5>5. CASE \E v : th' = [th EXCEPT ![t].pc = "retire", ![t].src = v]
          BY <3>1, <5>5
        <5> QED  BY <5>2, <5>3, <5>4, <5>5
      <4>3. CASE Launch(t)
        BY <3>1, <4>3 DEF Launch, UserLaunch, Reserve, NewContext, InitSucceeds, SetInit, PushNew, Launched, InitFails, RetireNew,
                    RetireThen, CallRelease, Resume
      <4>4. CASE Drop(t)
        BY <3>1, <4>4 DEF Drop, MqRelease, DropMessage, DropDone, CallSend
      <4>5. CASE Round(t)
        BY <4>5 DEF Round, GlobalmqPop, DispatchGrab, PopMessage, PopEmpty, Length, CallbackReturns, NextQueue,
                    PushBack, CallRelease
      <4> QED  BY <1>2, <4>1, <4>2, <4>3, <4>4, <4>5 DEF Step, WorkerStep, OutsiderStep
    <3> QED  BY <3>1, <3>2
  <2>2. ready \subseteq ready'
    <3>1. CASE UserLaunch(t)
      BY <3>1 DEF UserLaunch, NewContext
    <3>2. CASE SetInit(t)
      BY <3>2 DEF SetInit
    <3> QED  BY <1>2, <3>1, <3>2
             DEF Step, WorkerStep, OutsiderStep, Send, Delete, User, Launch, Drop, Round, OutsiderSend, SendGrab,
                 SendPush, Release, MarkRelease, DeleteContext, UserSend, UserSendRemote, UserKill, Retire, RetireThen, Reserve,
                 InitSucceeds,
                 PushNew, Launched, InitFails, RetireNew, MqRelease, DropMessage, DropDone, GlobalmqPop, DispatchGrab,
                 PopMessage, PopEmpty, Length, CallbackReturns, NextQueue, PushBack, ctxVars, harborVars
  <2>3. ASSUME NEW c \in registered' \ ready' PROVE \E u \in Thread : Preparing(th'[u], c)
    <3>1. CASE c \in registered
      <4>1. PICK u \in Thread : Preparing(th[u], c)
        BY <2>2, <2>3, <3>1 DEF Ready
      <4>2. c \in Ctx
        BY <3>1, Facts, <1>2
      <4>3. CASE u = t
        BY <1>2, <2>3, <4>1, <4>2, <4>3, PreparingKept
      <4>4. CASE u # t
        BY <2>1, <4>1, <4>4
      <4> QED  BY <4>3, <4>4
    <3>2. CASE c \notin registered
      <4>1. UserLaunch(t)
        BY <1>2, <2>3, <3>2
           DEF Step, WorkerStep, OutsiderStep, Send, Delete, User, Launch, Drop, Round, OutsiderSend, SendGrab,
               SendPush, Release, MarkRelease, DeleteContext, UserSend, UserSendRemote, UserKill, Retire, RetireThen, Reserve,
                 InitSucceeds,
               SetInit, PushNew, Launched, InitFails, RetireNew, MqRelease, DropMessage, DropDone, GlobalmqPop,
               DispatchGrab, PopMessage, PopEmpty, Length, CallbackReturns, NextQueue, PushBack, ctxVars, harborVars
      <4>2. PICK d \in Ctx \ born : NewContext(t, d)
        BY <4>1 DEF UserLaunch
      <4>3. d = c
        BY <2>3, <3>2, <4>2 DEF NewContext
      <4>4. th'[t].pc = "init" /\ th'[t].new = c
        BY <1>2, <4>2, <4>3 DEF NewContext, Core, Frames, Frame
      <4> QED  BY <1>2, <4>4 DEF Preparing, Base, Over, Releasing
    <3> QED  BY <3>1, <3>2
  <2>4. ASSUME NEW u \in Thread, NEW c \in Ctx, Dispatched(th'[u], c) PROVE c \in ready'
    <3>1. CASE Dispatched(th[u], c)
      BY <2>2, <3>1 DEF Ready
    <3>2. CASE u = t /\ th[t].pc = "grab" /\ c = th[t].q /\ c \in registered
      <4>1. SUFFICES ASSUME c \notin ready PROVE FALSE
        BY <2>2
      <4>2. PICK v \in Thread : Preparing(th[v], c)
        BY <3>2, <4>1 DEF Ready
      <4>3. c # NoCtx /\ c \in HeldBy(th[t]) /\ c \in HeldBy(th[v])
        BY <3>2, <4>2, CtxAssumption DEF HeldBy, Preparing, Base, Over, Releasing
      <4>4. v = t
        BY <3>2, <4>3, Facts DEF Alone
      <4> QED  BY <3>2, <4>2, <4>4, Facts DEF Preparing, Base, Over, Releasing
    <3>3. CASE u = t /\ ~Dispatched(th[t], c)
      BY <1>2, <2>4, <3>2, <3>3, DispatchedKept
    <3>4. CASE u # t
      BY <2>1, <2>4, <3>1, <3>4
    <3> QED  BY <3>1, <3>3, <3>4
  <2>5. \A u \in Thread : OwnRelease(th'[u])
    <3>1. OwnRelease(th'[t])
      BY <1>2, OwnReleaseKept
    <3> QED  BY <2>1, <3>1 DEF Ready
  <2> QED  BY <2>3, <2>4, <2>5 DEF Ready
<1>3. Next => \E t \in Thread : Step(t)
  BY DEF Next, Step, Thread
<1> QED  BY <1>1, <1>2, <1>3

-----------------------------------------------------------------------------
(* The beginning *)

(* The services of Boot stand in the global queue, each of them once. *)
LEMMA BootQueued ==
    ASSUME NEW s \in [1 .. Cardinality(Boot) -> Boot], \A i, j \in DOMAIN s : s[i] = s[j] => i = j
    PROVE  s \in Seq(Boot) /\ Queued(s) = Boot /\ Once(s)
<1> DEFINE n == Cardinality(Boot)
<1>1. IsFiniteSet(Boot) /\ n \in Nat
  BY CtxAssumption, FS_Subset, FS_CardinalityType
<1>2. s \in Seq(Boot) /\ Once(s)
  BY <1>1 DEF Once
<1>3. s \in Injection(1 .. n, Boot)
  BY DEF Injection, IsInjective
<1>4. Cardinality(1 .. n) = n
  BY <1>1, FS_Interval
<1>5. s \in Surjection(1 .. n, Boot)
  BY <1>1, <1>3, <1>4, FS_Injection
<1>6. Queued(s) = Boot
  BY <1>5 DEF Surjection, Queued
<1> QED  BY <1>2, <1>6

(* The first states satisfy the invariant. *)
LEMMA CoreInit == Init => Core /\ Ready
<1> SUFFICES ASSUME Init PROVE Core /\ Ready
  OBVIOUS
<1>1. \A t \in Thread : th[t] = Idle("poll") \/ th[t] = Idle("outside")
  BY DEF Init
<1>2. /\ \A pc \in {"poll", "outside"} : Idle(pc) \in Frame /\ Shaped(Idle(pc)) /\ HeldBy(Idle(pc)) = {}
      /\ \A pc \in {"poll", "outside"} : Idle(pc).pc = pc /\ Idle(pc).dq = NoCtx /\ Separate(Idle(pc))
      /\ \A pc \in {"poll", "outside"}, c \in Ctx :
            ~Grabbed(Idle(pc), c) /\ ~Dispatched(Idle(pc), c) /\ ~Started(Idle(pc), c)
  <2> SUFFICES ASSUME NEW pc \in {"poll", "outside"}
      PROVE  /\ Idle(pc) \in Frame /\ Shaped(Idle(pc)) /\ HeldBy(Idle(pc)) = {}
             /\ Idle(pc).pc = pc /\ Idle(pc).dq = NoCtx /\ Separate(Idle(pc))
             /\ \A c \in Ctx : ~Grabbed(Idle(pc), c) /\ ~Dispatched(Idle(pc), c) /\ ~Started(Idle(pc), c)
    OBVIOUS
  <2>1. Idle(pc) \in Frame
    BY DEF Idle, Frame, Ids, Bases, ReleaseRet, CallRet
  <2>2. Base(Idle(pc)) = pc
    BY DEF Base, Idle, Over, Releasing
  <2>3. Shaped(Idle(pc))
    BY <2>2 DEF Shaped, Idle, Bases, ReleaseRet, CallRet, Releasing, NewBase
  <2>4. HeldBy(Idle(pc)) = {} /\ Separate(Idle(pc))
    BY DEF HeldBy, Separate, Idle
  <2>5. \A c \in Ctx : ~Grabbed(Idle(pc), c) /\ ~Dispatched(Idle(pc), c) /\ ~Started(Idle(pc), c)
    BY CtxAssumption DEF Grabbed, Dispatched, Started, Idle
  <2> QED  BY <2>1, <2>3, <2>4, <2>5 DEF Idle
<1>3. Frames
  <2>1. \A t \in Thread : th[t] \in Frame /\ Shaped(th[t]) /\ Weighed(t, th[t])
    BY <1>1, <1>2 DEF Weighed
  <2> QED  BY <2>1 DEF Frames, Init
<1>4. gq \in Seq(Boot) /\ Queued(gq) = Boot /\ Once(gq)
  BY BootQueued DEF Init
<1>5. Types
  BY <1>4, CtxAssumption DEF Types, Init
<1>6. Counted
  <2> SUFFICES ASSUME NEW c \in Ctx PROVE ref[c] = Cardinality(All(registered, reserved, th, c))
    BY HoldersForm DEF Counted
  <2>1. Held3(th, Thread, c) = {}
    BY <1>1, <1>2 DEF Held3, Has
  <2>2. All(registered, reserved, th, c) = (IF c \in Boot THEN {<<NoCtx, "slot">>} ELSE {})
                                           \cup (IF c \in reserved THEN {<<NoCtx, "harbor">>} ELSE {})
    BY <2>1 DEF All, Init
  <2>3. Cardinality({<<NoCtx, "slot">>}) = 1 /\ Cardinality({}) = 0
    BY FS_Singleton, FS_EmptySet
  <2>4. Cardinality({<<NoCtx, "slot">>, <<NoCtx, "harbor">>}) = 2
    <3>1. Cardinality({<<NoCtx, "slot">>} \cup {<<NoCtx, "harbor">>}) = Cardinality({<<NoCtx, "slot">>}) + 1
      <4>1. IsFiniteSet({<<NoCtx, "slot">>}) /\ <<NoCtx, "harbor">> \notin {<<NoCtx, "slot">>}
        BY FS_Singleton
      <4> QED  BY <4>1, FS_AddElement
    <3>2. {<<NoCtx, "slot">>} \cup {<<NoCtx, "harbor">>} = {<<NoCtx, "slot">>, <<NoCtx, "harbor">>}
      OBVIOUS
    <3> QED  BY <2>3, <3>1, <3>2
  <2>5. reserved \subseteq Boot /\ ref[c] = IF c \in reserved THEN 2 ELSE IF c \in Boot THEN 1 ELSE 0
    BY DEF Init
  <2>6. CASE c \in reserved
    <3>1. All(registered, reserved, th, c) = {<<NoCtx, "slot">>, <<NoCtx, "harbor">>}
      BY <2>2, <2>5, <2>6
    <3> QED  BY <2>4, <2>5, <2>6, <3>1
  <2>7. CASE c \notin reserved
    BY <2>2, <2>3, <2>5, <2>7
  <2> QED  BY <2>6, <2>7
<1>7. Dead
  BY <1>1, <1>2 DEF Dead, Dying, Releasing, Init
<1>8. Owners
  <2>1. Alone
    BY <1>1, <1>2, <1>4 DEF Alone
  <2>2. Owned = Boot
    BY <1>1, <1>2, <1>4 DEF Owned
  <2>3. \A t \in Thread : th[t].dq = NoCtx
    BY <1>1, <1>2
  <2>4. mbox \in [Ctx -> Seq(Ids)] /\ \A c \in Ctx : mbox[c] # <<>> => c \in in_global
    <3>1. \A c \in Ctx : <<c>> \in Seq(Ids) /\ <<>> \in Seq(Ids)
      BY DEF Ids
    <3> QED  BY <3>1 DEF Init
  <2> QED  BY <2>1, <2>2, <2>3, <2>4 DEF Owners, Init
<1>9. Numbers
  <2>1. born \ freed = Boot
    BY DEF Init
  <2>2. reserved \subseteq Boot /\ remote \in reserved \cup {NoCtx}
    BY DEF Init
  <2> QED  BY <2>1, <2>2, ThreadAssumption DEF Numbers, Init
<1>10. Ready
  BY <1>1, <1>2 DEF Ready, OwnRelease, Releasing, Init
<1> QED  BY <1>3, <1>5, <1>6, <1>7, <1>8, <1>9, <1>10 DEF Core

(* The invariant of all steps *)
LEMMA Always == Spec => []IInv
<1>1. Init => IInv
  BY CoreInit DEF IInv
<1>2. IInv /\ [Next]_vars => IInv'
  BY CoreNext, ReadyNext DEF IInv
<1> QED  BY <1>1, <1>2, PTL DEF Spec

-----------------------------------------------------------------------------
(* What the invariant says of the properties of Dispatch *)

(* A context has finitely many holders, also on a node without threads. *)
LEMMA Finite == ASSUME NEW c PROVE IsFiniteSet(All(registered, reserved, th, c))
<1>1. IsFiniteSet(Thread \X Kinds)
  <2>1. IsFiniteSet({"grab"} \cup {"dispatch"} \cup {"launch"})
    BY FS_Singleton, FS_Union
  <2>2. Kinds = {"grab"} \cup {"dispatch"} \cup {"launch"}
    BY DEF Kinds
  <2>3. IsFiniteSet(Thread)
    BY ThreadAssumption DEF Thread
  <2> QED  BY <2>1, <2>2, <2>3, FS_Product
<1>2. IsFiniteSet(Held3(th, Thread, c))
  BY <1>1, FS_Subset DEF Held3
<1>3. IsFiniteSet(IF c \in registered THEN {<<NoCtx, "slot">>} ELSE {})
  BY FS_Singleton, FS_EmptySet
<1>4. IsFiniteSet(IF c \in reserved THEN {<<NoCtx, "harbor">>} ELSE {})
  BY FS_Singleton, FS_EmptySet
<1> QED  BY <1>2, <1>3, <1>4, FS_Union DEF All

(* ctx->ref is the number of holders, and not 0 while the handle is          *)
(* registered.                                                               *)
LEMMA RefNat ==
    ASSUME Core, NEW c \in Ctx
    PROVE  /\ ref[c] = Cardinality(Holders(c)) /\ ref[c] \in Nat
           /\ c \in registered \/ c \in reserved => ref[c] # 0
<1>1. ref[c] = Cardinality(All(registered, reserved, th, c))
  BY HoldersForm DEF Core, Counted
<1>2. /\ c \in registered => <<NoCtx, "slot">> \in All(registered, reserved, th, c)
      /\ c \in reserved => <<NoCtx, "harbor">> \in All(registered, reserved, th, c)
  BY DEF All
<1> QED  BY <1>1, <1>2, Finite, FS_CardinalityType, FS_EmptySet DEF Core, Counted

(* The contexts of Core, without a thread *)
LEMMA Bounds ==
    ASSUME Core
    PROVE  /\ born \subseteq Ctx /\ registered \subseteq born /\ ready \subseteq born
           /\ freed \subseteq release /\ release \subseteq born /\ in_global \subseteq born
           /\ qfreed \subseteq release /\ Owned = (in_global \cup release) \ qfreed
           /\ reserved \subseteq born \ freed /\ remote \in reserved \cup {NoCtx}
           /\ total = Cardinality((born \ freed) \ reserved) /\ IsFiniteSet((born \ freed) \ reserved)
<1>1. IsFiniteSet((born \ freed) \ reserved)
  BY CtxAssumption, FS_Subset DEF Core, Types
<1>2. \A c \in reserved : c \notin freed
  <2> SUFFICES ASSUME NEW c \in reserved, c \in freed PROVE FALSE
    OBVIOUS
  <2>1. c \in Ctx /\ ref[c] = 0
    BY DEF Core, Types, Dead, Numbers
  <2> QED  BY <2>1, RefNat
<1> QED  BY <1>1, <1>2 DEF Core, Types, Dead, Owners, Numbers

(* The mailboxes a thread holds, in the two forms that are used *)
LEMMA HeldIs == \A t \in Thread : Held(t) = HeldBy(th[t])
BY DEF Held, HeldBy, At

(* The invariant includes the types. *)
LEMMA CoreTypes == ASSUME Core PROVE TypeOK
<1>1. ref \in [Ctx -> Nat]
  BY RefNat DEF Core, Types
<1>2. gq \in Seq(Ctx)
  <2>1. gq \in Seq(born)
    BY DEF Core, Types
  <2> QED  BY <2>1, Bounds
<1>3. total \in Nat
  BY Bounds, FS_CardinalityType
<1>4. mbox \in [Ctx -> Seq(Ctx \cup {NoCtx})] /\ ops \in 0 .. MaxOps
  BY DEF Core, Owners, Numbers, Ids
<1> QED  BY <1>1, <1>2, <1>3, <1>4, Bounds DEF TypeOK

(***************************************************************************)
(* For every number of services and of workers a mailbox has at most one   *)
(* owner, in the global queue or with a thread, and it has one while it    *)
(* holds a message or waits to be freed: in_global of skynet_mq_push and   *)
(* of skynet_mq_pop keeps two workers out of one callback and forgets no   *)
(* message.                                                                *)
(***************************************************************************)
THEOREM MailboxOwnedHolds == Spec => []MailboxOwned
<1>1. Core => MailboxOwned
  <2> SUFFICES ASSUME Core PROVE MailboxOwned
    OBVIOUS
  <2>1. OneOwner
    BY HeldIs DEF OneOwner, Core, Owners, Alone, Once, Queued
  <2>2. ASSUME NEW c \in born \ qfreed, mbox[c] # <<>> \/ c \in freed
        PROVE  (\E i \in DOMAIN gq : gq[i] = c) \/ (\E t \in Thread : c \in Held(t))
    <3>1. c \in in_global \cup release
      BY <2>2, Bounds DEF Core, Owners
    <3>2. c \in Owned
      BY <2>2, <3>1, Bounds
    <3> QED  BY <3>2, HeldIs DEF Owned, Queued
  <2> QED  BY <2>1, <2>2, CoreTypes DEF MailboxOwned, OwnerInv, Scheduled
<1> QED  BY <1>1, Always, PTL DEF IInv

(***************************************************************************)
(* ctx->ref is the number of those that hold a reference, whoever launches,*)
(* addresses, dispatches and retires the service meanwhile, and 0 once it  *)
(* is freed: skynet_context_release deletes at the last one only.          *)
(***************************************************************************)
THEOREM RefExactHolds == Spec => []RefExact
<1>1. Core => RefExact
  BY RefNat, Bounds DEF RefExact, Core, Dead
<1> QED  BY <1>1, Always, PTL DEF IInv

(* Who runs the code of a service has a reference to it. *)
LEMMA SelfAlive ==
    ASSUME Core, NEW t \in Thread,
           th[t].pc \in {"pop_first", "pop", "length", "callback", "init", "end", "push_back"}
    PROVE  /\ Self(t) \in Ctx /\ Self(t) \in born \ freed
           /\ th[t].pc # "init" => Self(t) = th[t].q /\ Dispatched(th[t], th[t].q)
<1> DEFINE g == th[t]
<1>1. g \in Frame /\ Shaped(g) /\ Base(g) = g.pc
  BY Facts DEF Base, Over, Releasing
<1>2. CASE g.pc = "init"
  <2>1. g.new \in Ctx /\ Self(t) = g.new
    BY <1>1, <1>2 DEF Frame, Ids, Shaped, NewBase, Self, At
  <2>2. Started(g, g.new)
    BY <1>1, <1>2 DEF Started
  <2> QED  BY <1>2, <2>1, <2>2, Alive
<1>3. CASE g.pc # "init"
  <2>1. g.q \in Ctx /\ Self(t) = g.q
    BY <1>1, <1>3 DEF Frame, Ids, Shaped, Self, At
  <2>2. Dispatched(g, g.q)
    BY DEF Dispatched, Releasing
  <2> QED  BY <2>1, <2>2, Alive
<1> QED  BY <1>2, <1>3

(***************************************************************************)
(* Nobody reads or writes a context that delete_context has freed, or a    *)
(* mailbox that _release has, on any number of workers.                    *)
(***************************************************************************)
THEOREM NoUseAfterFreeHolds == Spec => []NoUseAfterFree
<1>1. Core => NoUseAfterFree
  <2> SUFFICES ASSUME Core PROVE NoUseAfterFree
    OBVIOUS
  <2>1. Owned \cap qfreed = {}
    BY Bounds
  <2>2. \A i \in DOMAIN gq : gq[i] \notin qfreed
    BY <2>1 DEF Owned, Queued
  <2>3. ASSUME NEW t \in Thread
        PROVE  /\ th[t].pc \in {"push", "release", "mark", "delete"} => th[t].obj \notin freed
               /\ th[t].pc \in {"push", "mark"} => th[t].obj \notin qfreed
    <3>1. CASE th[t].pc \in {"push", "release"}
      <4>1. th[t].obj \in Ctx
        BY <3>1, Bounds DEF Core, Dead, Releasing
      <4> QED  BY <3>1, <4>1, Alive DEF Grabbed
    <3>2. CASE th[t].pc \in {"mark", "delete"}
      BY <3>2, Bounds DEF Core, Dead, Dying
    <3> QED  BY <3>1, <3>2
  <2>4. ASSUME NEW t \in Thread
        PROVE  th[t].pc \in {"set_init", "launched"} /\ th[t].new \in registered => th[t].new \notin freed
    BY Bounds, Alive
  <2>5. \A t \in Thread : Held(t) \cap qfreed = {}
    BY <2>1, HeldIs DEF Owned
  <2>6. remote \notin freed \cup qfreed
    <3>1. CASE remote = NoCtx
      BY <3>1, Bounds, CtxAssumption
    <3>2. CASE remote # NoCtx
      <4>1. remote \in reserved /\ remote \in Ctx
        BY <3>2, Bounds
      <4>2. ref[remote] # 0
        BY <4>1, RefNat
      <4> QED  BY <4>1, <4>2, Bounds DEF Core, Dead
    <3> QED  BY <3>1, <3>2
  <2> QED  BY <2>2, <2>3, <2>4, <2>5, <2>6, SelfAlive DEF NoUseAfterFree
<1> QED  BY <1>1, Always, PTL DEF IInv

(***************************************************************************)
(* What is dispatched has ctx->init set, skynet_mq_mark_release finds      *)
(* release clear, and when CHECK_ABORT finds no service there is none that *)
(* runs or can be addressed but the harbor service, which                  *)
(* skynet_context_reserve has ceased to count.                             *)
(***************************************************************************)
THEOREM AssertsHoldAlways == Spec => []AssertsHold
<1>1. IInv => AssertsHold
  <2> SUFFICES ASSUME Core, Ready PROVE AssertsHold
    BY DEF IInv
  <2>1. DispatchAsserts
    <3>1. ASSUME NEW t \in Thread, At(t, "callback") PROVE th[t].q \in ready
      <4>1. th[t].q \in Ctx /\ Dispatched(th[t], th[t].q)
        BY <3>1, SelfAlive DEF At
      <4> QED  BY <4>1 DEF Ready
    <3> QED  BY <3>1 DEF DispatchAsserts, At, Core, Dead
  <2>2. total = 0 <=> born \ freed \subseteq reserved
    <3>1. total = 0 <=> (born \ freed) \ reserved = {}
      BY Bounds, FS_EmptySet
    <3> QED  BY <3>1
  <2>3. ASSUME total = 0
        PROVE  /\ registered \subseteq reserved
               /\ \A t \in Thread : th[t].pc \in UserCode => Self(t) \in reserved
    <3>1. born \ freed \subseteq reserved
      BY <2>2, <2>3
    <3>2. ASSUME NEW c \in registered, c \notin reserved PROVE FALSE
      <4>1. c \in Ctx /\ c \in freed /\ c \in release
        BY <3>1, <3>2, Bounds
      <4> QED  BY <4>1, RefNat DEF Core, Dead
    <3>3. ASSUME NEW t \in Thread, th[t].pc \in UserCode PROVE Self(t) \in reserved
      BY <3>1, <3>3, SelfAlive DEF UserCode
    <3> QED  BY <3>2, <3>3
  <2> QED  BY <2>1, <2>2, <2>3 DEF AssertsHold, AbortIsSafe
<1> QED  BY <1>1, Always, PTL
=============================================================================
