-------------------------- MODULE ExceptionsProofs --------------------------
(***************************************************************************)
(* For every set of interrupts, priorities, masks, peripherals and stack   *)
(* size: the exception controller, the NVIC, the IPSR and the frames in    *)
(* memory agree, the cached summary is exact and asserted levels stay      *)
(* pending.  No discipline of the firmware is assumed.                     *)
(***************************************************************************)
EXTENDS Exceptions, TLAPS, WellFoundedInduction, SequenceTheorems

(* The NVIC state between two operations.                                  *)
Sampled(s) ==
    /\ s \in SystemState
    /\ s.summary <=> (s.pending \cap s.enable) # {}
    /\ s.lines \ s.active \subseteq s.pending

(* What no operation but the line callback and the priority writes touch.  *)
SameInputs(s, t) ==
    /\ t.lines = s.lines /\ t.priority = s.priority
    /\ t.enable = s.enable /\ t.resetRequested = s.resetRequested

-----------------------------------------------------------------------------
(* refreshPendingSummary makes any typed state a sampled one.              *)
LEMMA RefreshSamples ==
    ASSUME NEW s \in SystemState
    PROVE  LET r == RefreshPendingSummary(s)
           IN  /\ Sampled(r) /\ SameInputs(s, r)
               /\ r.current = s.current /\ r.active = s.active
  <1> DEFINE p == s.pending \cup (s.lines \ s.active)
             r == RefreshPendingSummary(s)
  <1>1. r = [s EXCEPT !.pending = p, !.summary = (p \cap s.enable) # {}]
    BY DEF RefreshPendingSummary
  <1>2. p \in SUBSET Irqs /\ ((p \cap s.enable) # {}) \in BOOLEAN
    BY DEF SystemState
  <1>3. /\ r \in SystemState /\ r.pending = p
        /\ r.summary = ((p \cap s.enable) # {})
        /\ r.enable = s.enable /\ r.lines = s.lines /\ r.active = s.active
        /\ r.priority = s.priority /\ r.current = s.current
        /\ r.resetRequested = s.resetRequested
    BY <1>1, <1>2 DEF SystemState
  <1>4. s.lines \ s.active \subseteq p
    OBVIOUS
  <1>5. Sampled(r) /\ SameInputs(s, r) /\ r.current = s.current /\ r.active = s.active
    <2> HIDE DEF r
    <2> QED
      BY <1>3, <1>4 DEF Sampled, SameInputs
  <1> QED
    BY <1>5

(* enter() makes the exception the active one.                             *)
LEMMA EnterSamples ==
    ASSUME NEW s, Sampled(s), NEW e \in Exceptions
    PROVE  /\ Sampled(EnterException(s, e)) /\ SameInputs(s, EnterException(s, e))
           /\ EnterException(s, e).current = e
  <1> DEFINE t == [s EXCEPT !.current = e, !.active = @ \cup ({e} \cap Irqs)]
  <1>1. /\ t \in SystemState /\ SameInputs(s, t) /\ t.current = e
        /\ t.pending = s.pending /\ t.summary = s.summary
        /\ s.active \subseteq t.active
    BY DEF Sampled, SystemState, SameInputs
  <1>2. EnterException(s, e) = ClearPending(t, e)
    BY DEF EnterException
  <1> HIDE DEF t
  <1>3. CASE e \in {PendSV, SysTick}
    <2> DEFINE u == [t EXCEPT !.system = @ \ {e}]
    <2>1. EnterException(s, e) = u
      BY <1>2, <1>3 DEF ClearPending
    <2>2. /\ u \in SystemState /\ SameInputs(s, u) /\ u.current = e
          /\ u.pending = t.pending /\ u.summary = t.summary /\ u.active = t.active
      BY <1>1 DEF SystemState, SameInputs
    <2> HIDE DEF u
    <2> QED
      BY <1>1, <2>1, <2>2 DEF Sampled, SameInputs
  <1>4. CASE e \notin {PendSV, SysTick} /\ e \in Irqs
    <2> DEFINE u == [t EXCEPT !.pending = @ \ {e}]
    <2>1. EnterException(s, e) = RefreshPendingSummary(u)
      BY <1>2, <1>4 DEF ClearPending
    <2>2. u \in SystemState /\ SameInputs(s, u) /\ u.current = e
      BY <1>1 DEF SystemState, SameInputs
    <2> HIDE DEF u
    <2> QED
      BY <2>1, <2>2, RefreshSamples DEF SameInputs
  <1>5. CASE e \notin {PendSV, SysTick} /\ e \notin Irqs
    <2>1. EnterException(s, e) = t
      BY <1>2, <1>5 DEF ClearPending
    <2> QED
      BY <1>1, <2>1 DEF Sampled, SameInputs
  <1> QED
    BY <1>3, <1>4, <1>5

(* leave() deactivates and samples the lines again.                        *)
LEMMA LeaveSamples ==
    ASSUME NEW s, Sampled(s), NEW e \in Exceptions
    PROVE  /\ Sampled(LeaveException(s, e)) /\ SameInputs(s, LeaveException(s, e))
           /\ s.current = e => LeaveException(s, e).current = Thread
  <1> DEFINE c == IF s.current = e THEN Thread ELSE s.current
             t == [s EXCEPT !.active = @ \ {e}, !.current = c]
  <1>1. LeaveException(s, e) = RefreshPendingSummary(t)
    BY DEF LeaveException, Sampled, SystemState
  <1>2. t \in SystemState /\ SameInputs(s, t) /\ t.current = c
    BY DEF Sampled, SystemState, SameInputs
  <1> HIDE DEF t
  <1> QED
    BY <1>1, <1>2, RefreshSamples DEF SameInputs

(* resume() changes nothing but the active exception.                      *)
LEMMA ResumeSamples ==
    ASSUME NEW s, Sampled(s), NEW e \in Exceptions
    PROVE  /\ Sampled(ResumeException(s, e)) /\ SameInputs(s, ResumeException(s, e))
           /\ ResumeException(s, e).current = e
  BY DEF Sampled, SystemState, SameInputs, ResumeException

-----------------------------------------------------------------------------
(* The machine between two boundaries.                                     *)
MachineType ==
    [sys : SystemState, cpu : CpuState, activeStack : Seq(Exceptions),
     frames : Seq(Frame),
     phase : {"fetch", "settle", "architectural_fault", "reset_requested"}]

TopOf(stack) == IF stack = <<>> THEN Thread ELSE stack[Len(stack)]

Agree(k) ==
    /\ Len(k.frames) = Len(k.activeStack)
    /\ \A i \in 1..Len(k.frames) :
          /\ k.frames[i].ipsr = IF i = 1 THEN Thread ELSE k.activeStack[i - 1]
          /\ k.frames[i].fromHandler <=> i > 1
    /\ k.cpu.ipsr = TopOf(k.activeStack)
    /\ k.sys.current = TopOf(k.activeStack)

MachineOK(k) ==
    /\ k \in MachineType
    /\ Sampled(k.sys)
    /\ Len(k.frames) <= MaxFrames
    /\ Agree(k)

(* Every non-empty set of natural numbers has a least element.             *)
LEMMA LeastNatural ==
    ASSUME NEW T \in SUBSET Nat, T # {}
    PROVE  \E x \in T : \A y \in T : x <= y
  <1>1. PICK x \in T : \A y \in T : ~(<<y, x>> \in OpToRel(<, Nat))
    BY WFMin, NatLessThanWellFounded
  <1>2. ASSUME NEW y \in T PROVE x <= y
    <2>1. <<y, x>> \in Nat \X Nat /\ <<y, x>>[1] = y /\ <<y, x>>[2] = x
      OBVIOUS
    <2>2. y < x => <<y, x>> \in OpToRel(<, Nat)
      BY <2>1, Zenon DEF OpToRel
    <2>3. ~(y < x)
      BY <1>1, <2>2, Zenon
    <2> QED
      BY <2>3
  <1> QED
    BY <1>2

(* A non-empty set of exceptions has a most urgent member.                 *)
LEMMA MostUrgentExists ==
    ASSUME NEW s \in SystemState, NEW T \in SUBSET Exceptions, T # {}
    PROVE  \E e \in T : \A f \in T \ {e} : MoreUrgent(s, e, f)
  <1> DEFINE key(e) == 256 * s.priority[e] + e
             keys == {key(e) : e \in T}
  <1>1. \A e \in Exceptions : e \in 11..255 /\ s.priority[e] \in 0..15
    <2>1. s.priority \in [Exceptions -> Levels]
      BY DEF SystemState
    <2>2. \A e \in Exceptions : s.priority[e] \in 0..15
      BY <2>1, LevelAssumption
    <2>3. \A e \in Exceptions : e \in 11..255
      BY IrqAssumption DEF Exceptions, SystemExceptions, SVCall, PendSV, SysTick
    <2> QED
      BY <2>2, <2>3
  <1>2. keys \in SUBSET Nat /\ keys # {}
    <2>1. ASSUME NEW e \in T PROVE key(e) \in Nat
      <3>1. e \in 11..255 /\ s.priority[e] \in 0..15
        BY <1>1
      <3> QED
        BY <3>1
    <2> HIDE DEF key
    <2> QED
      BY <2>1
  <1>3. PICK n \in keys : \A k \in keys : n <= k
    BY <1>2, LeastNatural
  <1>4. PICK e \in T : n = key(e)
    BY <1>3
  <1>5. ASSUME NEW f \in T \ {e} PROVE MoreUrgent(s, e, f)
    <2>1. key(e) <= key(f)
      BY <1>3, <1>4
    <2>2. /\ e \in 11..255 /\ s.priority[e] \in 0..15
          /\ f \in 11..255 /\ s.priority[f] \in 0..15 /\ e # f
      BY <1>1
    <2> QED
      BY <2>1, <2>2 DEF MoreUrgent
  <1> QED
    BY <1>4, <1>5

(* nextPending names no exception, or the most urgent takable one.         *)
LEMMA NextPendingTakable ==
    ASSUME NEW s \in SystemState, NEW masks, NextPending(s, masks) # Thread
    PROVE  /\ NextPending(s, masks) \in Exceptions
           /\ Takable(s, masks, NextPending(s, masks))
           /\ \A f \in Exceptions \ {NextPending(s, masks)} :
                 Takable(s, masks, f) => MoreUrgent(s, NextPending(s, masks), f)
  <1> DEFINE takable == {e \in Exceptions : Takable(s, masks, e)}
  <1>1. takable # {} /\ NextPending(s, masks)
            = CHOOSE e \in takable : \A f \in takable \ {e} : MoreUrgent(s, e, f)
    BY DEF NextPending
  <1>2. \E x \in takable : \A f \in takable \ {x} : MoreUrgent(s, x, f)
    BY <1>1, MostUrgentExists
  <1>3. /\ NextPending(s, masks) \in takable
        /\ \A f \in takable \ {NextPending(s, masks)} :
              MoreUrgent(s, NextPending(s, masks), f)
    BY <1>1, <1>2
  <1> QED
    BY <1>3

(* Entering adds nothing to what is pending.                               *)
LEMMA EnterAcceptsOnly ==
    ASSUME NEW s, Sampled(s), NEW e \in Exceptions
    PROVE  /\ EnterException(s, e).pending \subseteq s.pending
           /\ EnterException(s, e).system \subseteq s.system
  <1> DEFINE t == [s EXCEPT !.current = e, !.active = @ \cup ({e} \cap Irqs)]
             p == s.pending \ {e}
  <1>1. /\ t \in SystemState /\ t.pending = s.pending /\ t.system = s.system
        /\ t.lines = s.lines /\ t.active = s.active \cup ({e} \cap Irqs)
    BY DEF Sampled, SystemState
  <1>2. EnterException(s, e) = ClearPending(t, e)
    BY DEF EnterException
  <1> HIDE DEF t
  <1>3. CASE e \in {PendSV, SysTick}
    <2>1. EnterException(s, e) = [t EXCEPT !.system = @ \ {e}]
      BY <1>2, <1>3 DEF ClearPending
    <2> QED
      BY <1>1, <2>1 DEF SystemState
  <1>4. CASE e \notin {PendSV, SysTick} /\ e \in Irqs
    <2>1. EnterException(s, e) = RefreshPendingSummary([t EXCEPT !.pending = p])
      BY <1>1, <1>2, <1>4 DEF ClearPending
    <2>2. /\ EnterException(s, e).pending = p \cup (t.lines \ t.active)
          /\ EnterException(s, e).system = t.system
      BY <1>1, <2>1 DEF RefreshPendingSummary, SystemState
    <2> QED
      BY <1>1, <2>2 DEF Sampled
  <1>5. CASE e \notin {PendSV, SysTick} /\ e \notin Irqs
    <2>1. EnterException(s, e) = t
      BY <1>2, <1>5 DEF ClearPending
    <2> QED
      BY <1>1, <2>1
  <1> QED
    BY <1>3, <1>4, <1>5

(* After the entry of the most urgent takable exception none is takable.   *)
LEMMA OneEntryIsEnough ==
    ASSUME NEW s, Sampled(s), NEW masks, NEW e, e = NextPending(s, masks),
           e # Thread, NEW f \in Exceptions
    PROVE  ~Takable(EnterException(s, e), masks, f)
  <1> DEFINE t == EnterException(s, e)
  <1>1. /\ e \in Exceptions /\ Takable(s, masks, e)
        /\ f # e /\ Takable(s, masks, f) => MoreUrgent(s, e, f)
    BY NextPendingTakable DEF Sampled
  <1>2. /\ t.current = e /\ t.priority = s.priority /\ t.enable = s.enable
        /\ t.pending \subseteq s.pending /\ t.system \subseteq s.system
    BY <1>1, EnterSamples, EnterAcceptsOnly DEF SameInputs
  <1>3. s.priority[e] \in Nat /\ s.priority[f] \in Nat
    <2>1. s.priority \in [Exceptions -> Levels]
      BY DEF Sampled, SystemState
    <2>2. s.priority[e] \in 0..15 /\ s.priority[f] \in 0..15
      BY <2>1, <1>1, LevelAssumption
    <2> QED
      BY <2>2
  <1> HIDE DEF t
  <1>4. SUFFICES ASSUME Takable(t, masks, f) PROVE FALSE
    BY DEF t
  <1>5. s.priority[f] < s.priority[e]
    BY <1>1, <1>2, <1>4 DEF Takable, Preempts
  <1>6. Takable(s, masks, f)
    <2>1. IsPending(s, f) /\ IsEnabled(s, f)
      BY <1>2, <1>4 DEF Takable, IsPending, IsEnabled
    <2>2. Preempts(s, f)
      <3> SUFFICES ASSUME s.current # Thread
                   PROVE  s.priority[f] < s.priority[s.current]
        BY DEF Preempts
      <3>1. s.priority[e] < s.priority[s.current]
        BY <1>1 DEF Takable, Preempts
      <3>2. s.priority[s.current] \in Nat
        <4>1. s.priority \in [Exceptions -> Levels] /\ s.current \in Exceptions
          BY DEF Sampled, SystemState
        <4>2. s.priority[s.current] \in 0..15
          BY <4>1, LevelAssumption
        <4> QED
          BY <4>2
      <3> QED
        BY <1>3, <1>5, <3>1, <3>2
    <2>3. masks.basepri # 0 => s.priority[f] < masks.basepri
      BY <1>2, <1>4 DEF Takable
    <2> QED
      BY <1>4, <2>1, <2>2, <2>3 DEF Takable
  <1>7. e # f
    BY <1>3, <1>5
  <1> QED
    BY <1>1, <1>3, <1>5, <1>6, <1>7 DEF MoreUrgent

(* What nextPending's two early answers mean.                              *)
LEMMA NothingToTake ==
    ASSUME NEW s, Sampled(s), NEW masks,
           ~HasEnabledPending(s) \/ NextPending(s, masks) = Thread,
           NEW f \in Exceptions
    PROVE  ~Takable(s, masks, f)
  <1>1. CASE ~HasEnabledPending(s)
    <2>1. s.system = {} /\ s.pending \cap s.enable = {}
      BY <1>1 DEF HasEnabledPending, Sampled
    <2>2. s.pending \cap SystemExceptions = {}
      BY IrqAssumption DEF Sampled, SystemState, SystemExceptions, SVCall,
                           PendSV, SysTick
    <2> QED
      BY <2>1, <2>2 DEF Takable, IsPending, IsEnabled
  <1>2. CASE HasEnabledPending(s) /\ NextPending(s, masks) = Thread
    <2> SUFFICES ASSUME Takable(s, masks, f) PROVE FALSE
      OBVIOUS
    <2> DEFINE takable == {e \in Exceptions : Takable(s, masks, e)}
    <2>1. takable # {}
      OBVIOUS
    <2>2. PICK e \in takable : \A g \in takable \ {e} : MoreUrgent(s, e, g)
      BY <2>1, MostUrgentExists DEF Sampled
    <2>3. NextPending(s, masks) \in takable
      <3>1. NextPending(s, masks)
              = CHOOSE x \in takable : \A g \in takable \ {x} : MoreUrgent(s, x, g)
        BY <1>2, <2>1 DEF NextPending
      <3> HIDE DEF takable
      <3> QED
        BY <2>2, <3>1
    <2>4. Thread \notin Exceptions
      BY IrqAssumption DEF Exceptions, SystemExceptions, SVCall, PendSV,
                           SysTick, Thread
    <2> QED
      BY <1>2, <2>3, <2>4
  <1> QED
    BY <1>1, <1>2

(* Whatever is entered leaves the records of the nesting in agreement.     *)
LEMMA EnterOK ==
    ASSUME NEW k, MachineOK(k), Running(k), NEW e \in Exceptions
    PROVE  /\ MachineOK(Enter(k, e)) /\ SameInputs(k.sys, Enter(k, e).sys)
           /\ Running(Enter(k, e)) => /\ Enter(k, e).phase = k.phase
                                      /\ Enter(k, e).sys = EnterException(k.sys, e)
           /\ Enter(k, e).cpu.masks = k.cpu.masks
  <1> DEFINE lazy == k.cpu.fpca /\ "LSPEN" \in fpccr /\ ~k.cpu.lazyActive
             frame == [ipsr |-> k.cpu.ipsr, extended |-> k.cpu.fpca,
                       fromHandler |-> InHandlerMode(k.cpu),
                       area |-> IF k.cpu.fpca /\ ~lazy THEN k.cpu.fp ELSE Stale]
             base == IF lazy THEN Len(k.frames) + 1 ELSE k.cpu.lazyBase
             fs == Append(k.frames, frame)
             st == Append(k.activeStack, e)
             c == [k.cpu EXCEPT !.ipsr = e, !.lazyActive = lazy, !.lazyBase = base]
             s == EnterException(k.sys, e)
  <1>1. /\ k \in MachineType /\ Sampled(k.sys) /\ Len(k.frames) <= MaxFrames
        /\ Agree(k) /\ k.cpu \in CpuState /\ k.frames \in Seq(Frame)
        /\ k.activeStack \in Seq(Exceptions) /\ k.sys \in SystemState
    BY DEF MachineOK, MachineType
  <1>2. CASE ~StackFits(k)
    <2>1. Enter(k, e) = [k EXCEPT !.phase = "architectural_fault"]
      BY <1>2 DEF Enter
    <2>2. /\ Enter(k, e) \in MachineType /\ Enter(k, e).sys = k.sys
          /\ Enter(k, e).cpu = k.cpu /\ Enter(k, e).frames = k.frames
          /\ Enter(k, e).activeStack = k.activeStack
          /\ Enter(k, e).phase = "architectural_fault"
      BY <1>1, <2>1 DEF MachineType
    <2> HIDE DEF s, c, fs, st
    <2> QED
      BY <1>1, <2>2 DEF MachineOK, Agree, SameInputs, Running
  <1>3. CASE StackFits(k)
    <2>1. Enter(k, e) = [k EXCEPT !.frames = fs, !.cpu.ipsr = e,
                !.cpu.lazyActive = lazy, !.cpu.lazyBase = base,
                !.activeStack = st, !.sys = s]
      BY <1>3 DEF Enter, MachineOK, MachineType
    <2>2. /\ Enter(k, e).frames = fs /\ Enter(k, e).activeStack = st
          /\ Enter(k, e).sys = s /\ Enter(k, e).cpu = c
          /\ Enter(k, e).phase = k.phase
      BY <2>1, <1>1 DEF MachineType, CpuState
    <2>3. c \in CpuState /\ c.ipsr = e /\ c.masks = k.cpu.masks
      <3>1. lazy \in BOOLEAN /\ base \in 0..MaxFrames
        BY <1>1, <1>3, FrameAssumption DEF StackFits, CpuState
      <3> HIDE DEF lazy, base
      <3> QED
        BY <1>1, <3>1 DEF CpuState
    <2>4. /\ frame \in Frame /\ frame.ipsr = k.cpu.ipsr
          /\ frame.fromHandler <=> frame.ipsr # Thread
      BY <1>1 DEF Frame, CpuState, InHandlerMode, Fp
    <2>5. Sampled(s) /\ SameInputs(k.sys, s) /\ s.current = e
      BY <1>1, EnterSamples
    <2> HIDE DEF lazy, frame, base, c, s
    <2>6. /\ fs \in Seq(Frame) /\ st \in Seq(Exceptions)
          /\ Len(fs) = Len(k.frames) + 1 /\ Len(st) = Len(k.activeStack) + 1
          /\ \A i \in 1..Len(k.frames) : fs[i] = k.frames[i]
          /\ \A i \in 1..Len(k.activeStack) : st[i] = k.activeStack[i]
          /\ fs[Len(fs)] = frame /\ st[Len(st)] = e /\ st # <<>>
      BY <1>1, <2>4
    <2> HIDE DEF fs, st
    <2>7. Enter(k, e) \in MachineType
      <3>1. Enter(k, e) = [k EXCEPT !.frames = fs, !.cpu = c,
                             !.activeStack = st, !.sys = s]
        BY <2>1, <1>1 DEF MachineType, CpuState, c
      <3> QED
        BY <3>1, <1>1, <2>3, <2>5, <2>6 DEF MachineType, Sampled
    <2>8. Agree(Enter(k, e))
      <3>1. Len(fs) = Len(st) /\ TopOf(st) = e
        BY <1>1, <2>6 DEF Agree, TopOf
      <3>2. ASSUME NEW i \in 1..Len(fs)
            PROVE  /\ fs[i].ipsr = IF i = 1 THEN Thread ELSE st[i - 1]
                   /\ fs[i].fromHandler <=> i > 1
        <4>1. CASE i \in 1..Len(k.frames)
          <5>1. i = 1 \/ i - 1 \in 1..Len(k.activeStack)
            BY <4>1, <1>1 DEF Agree
          <5> QED
            BY <4>1, <5>1, <1>1, <2>6 DEF Agree
        <4>2. CASE i = Len(k.frames) + 1
          <5>1. fs[i] = frame /\ Len(k.frames) = Len(k.activeStack)
            BY <4>2, <2>6, <1>1 DEF Agree
          <5>2. frame.ipsr = TopOf(k.activeStack)
            BY <2>4, <1>1 DEF Agree
          <5>3. CASE k.activeStack = <<>>
            <6>1. i = 1 /\ frame.ipsr = Thread
              BY <5>1, <5>2, <5>3, <4>2 DEF TopOf
            <6> QED
              BY <6>1, <5>1, <2>4
          <5>4. CASE k.activeStack # <<>>
            <6>1. Len(k.activeStack) \in Nat \ {0}
              BY <5>4, <1>1
            <6>2. frame.ipsr = k.activeStack[i - 1] /\ i > 1
              BY <5>1, <5>2, <5>4, <6>1, <4>2 DEF TopOf
            <6>3. k.activeStack[i - 1] = st[i - 1] /\ st[i - 1] \in Exceptions
              BY <6>1, <2>6, <5>1, <4>2, <1>1
            <6>4. \A x \in Exceptions : x # Thread
              BY IrqAssumption DEF Exceptions, SystemExceptions, SVCall,
                                   PendSV, SysTick, Thread
            <6>5. frame.fromHandler /\ i # 1
              BY <6>2, <6>3, <6>4, <2>4
            <6> QED
              BY <5>1, <6>2, <6>3, <6>5
          <5> QED
            BY <5>3, <5>4
        <4> QED
          BY <4>1, <4>2, <2>6, <1>1
      <3> QED
        BY <3>1, <3>2, <2>2, <2>3, <2>5 DEF Agree
    <2>9. Len(fs) <= MaxFrames
      BY <1>1, <1>3, <2>6, FrameAssumption DEF StackFits
    <2>10. MachineOK(Enter(k, e)) /\ SameInputs(k.sys, Enter(k, e).sys)
      BY <2>2, <2>5, <2>7, <2>8, <2>9 DEF MachineOK
    <2> QED
      BY <2>2, <2>3, <2>10 DEF Running, s
  <1> QED
    BY <1>2, <1>3

(* A return takes away one level of the nesting from all of its records.   *)
LEMMA ReturnOK ==
    ASSUME NEW k, MachineOK(k), Running(k)
    PROVE  /\ MachineOK(ExceptionReturn(k))
           /\ SameInputs(k.sys, ExceptionReturn(k).sys)
           /\ ExceptionReturn(k).cpu.masks = k.cpu.masks
  <1> DEFINE n == Len(k.activeStack)
             frame == Last(k.frames)
             leaving == Last(k.activeStack)
             rest == Front(k.activeStack)
             fs == Front(k.frames)
             left == LeaveException(k.sys, leaving)
             s == IF rest = <<>> THEN left ELSE ResumeException(left, Last(rest))
             fp == UnstackFp(k.cpu, frame)
             fpca == IF frame.fromHandler THEN k.cpu.fpca ELSE frame.extended
             c == [k.cpu EXCEPT !.fp = fp, !.lazyActive = FALSE,
                                !.ipsr = frame.ipsr, !.fpca = fpca]
             r == ExceptionReturn(k)
  <1>1. /\ k \in MachineType /\ Sampled(k.sys) /\ Len(k.frames) <= MaxFrames
        /\ Agree(k) /\ k.cpu \in CpuState /\ k.frames \in Seq(Frame)
        /\ k.activeStack \in Seq(Exceptions) /\ k.sys \in SystemState
    BY DEF MachineOK, MachineType
  <1>2. CASE k.activeStack = <<>> \/ ~InHandlerMode(k.cpu)
    <2>1. r = [k EXCEPT !.phase = "architectural_fault"]
      BY <1>2 DEF ExceptionReturn
    <2>2. /\ r \in MachineType /\ r.sys = k.sys /\ r.cpu = k.cpu
          /\ r.frames = k.frames /\ r.activeStack = k.activeStack
      BY <1>1, <2>1 DEF MachineType
    <2> HIDE DEF r
    <2>3. MachineOK(r) /\ SameInputs(k.sys, r.sys) /\ r.cpu.masks = k.cpu.masks
      BY <1>1, <2>2 DEF MachineOK, Agree, SameInputs
    <2> QED
      BY <2>3 DEF r
  <1>3. CASE ~(k.activeStack = <<>> \/ ~InHandlerMode(k.cpu))
    <2>1. r = [k EXCEPT !.frames = fs, !.activeStack = rest, !.sys = s,
                 !.cpu.fp = fp, !.cpu.lazyActive = FALSE,
                 !.cpu.ipsr = frame.ipsr, !.cpu.fpca = fpca]
      BY <1>3, <1>1 DEF ExceptionReturn, MachineType, CpuState
    <2>2. r = [k EXCEPT !.frames = fs, !.activeStack = rest, !.sys = s, !.cpu = c]
      BY <2>1, <1>1 DEF MachineType, CpuState
    <2>3. n \in Nat \ {0} /\ Len(k.frames) = n
      BY <1>1, <1>3 DEF Agree
    <2>4. /\ frame = k.frames[n] /\ frame \in Frame
          /\ leaving = k.activeStack[n] /\ leaving \in Exceptions
          /\ k.sys.current = leaving
      BY <1>1, <1>3, <2>3 DEF Last, Agree, TopOf
    <2>5. /\ fs \in Seq(Frame) /\ Len(fs) = n - 1
          /\ \A i \in 1..(n - 1) : fs[i] = k.frames[i]
          /\ rest \in Seq(Exceptions) /\ Len(rest) = n - 1
          /\ \A i \in 1..(n - 1) : rest[i] = k.activeStack[i]
      <3>1. /\ 1 \in Int /\ n - 1 \in Int
            /\ \A i \in 1..(n - 1) : k.frames[i] \in Frame
            /\ \A i \in 1..(n - 1) : k.activeStack[i] \in Exceptions
        BY <1>1, <2>3
      <3>2. /\ fs = SubSeq(k.frames, 1, n - 1)
            /\ rest = SubSeq(k.activeStack, 1, n - 1)
        BY <2>3 DEF Front
      <3> HIDE DEF fs, rest, n
      <3>3. /\ fs \in Seq(Frame) /\ Len(fs) = n - 1
            /\ \A i \in 1..(n - 1) : fs[i] = k.frames[i]
        BY <3>1, <3>2, <2>3, SubSeqProperties
      <3>4. /\ rest \in Seq(Exceptions) /\ Len(rest) = n - 1
            /\ \A i \in 1..(n - 1) : rest[i] = k.activeStack[i]
        BY <3>1, <3>2, <2>3, SubSeqProperties
      <3> QED
        BY <3>3, <3>4
    <2> HIDE DEF fs, rest, frame, leaving
    <2>6. Sampled(left) /\ SameInputs(k.sys, left) /\ left.current = Thread
      BY <1>1, <2>4, LeaveSamples
    <2>7. Sampled(s) /\ SameInputs(k.sys, s) /\ s.current = TopOf(rest)
      <3>1. CASE rest = <<>>
        BY <3>1, <2>6 DEF TopOf
      <3>2. CASE rest # <<>>
        <4>1. Last(rest) = rest[Len(rest)] /\ Last(rest) \in Exceptions
          BY <3>2, <2>5 DEF Last
        <4>2. s = ResumeException(left, Last(rest))
          BY <3>2
        <4> HIDE DEF left, s
        <4> QED
          BY <3>2, <4>1, <4>2, <2>6, ResumeSamples DEF TopOf, SameInputs
      <3> QED
        BY <3>1, <3>2
    <2>8. c \in CpuState /\ c.ipsr = frame.ipsr /\ c.masks = k.cpu.masks
      <3>1. fp \in Fp /\ fpca \in BOOLEAN /\ frame.ipsr \in Exceptions \cup {Thread}
        BY <1>1, <2>4 DEF UnstackFp, CpuState, Frame
      <3> HIDE DEF fp, fpca
      <3> QED
        BY <1>1, <3>1 DEF CpuState
    <2>9. frame.ipsr = TopOf(rest)
      <3>1. frame.ipsr = IF n = 1 THEN Thread ELSE k.activeStack[n - 1]
        <4>1. n \in 1..Len(k.frames)
          BY <2>3
        <4> QED
          BY <1>1, <2>4, <4>1 DEF Agree
      <3>2. CASE n = 1
        BY <3>1, <3>2, <2>5 DEF TopOf
      <3>3. CASE n # 1
        <4>1. rest # <<>> /\ rest[n - 1] = k.activeStack[n - 1]
          <5>1. n - 1 \in 1..(n - 1) /\ n - 1 # 0
            <6>1. n \in Nat \ {0, 1}
              BY <3>3, <2>3
            <6> HIDE DEF n
            <6> QED
              BY <6>1
          <5> QED
            BY <5>1, <2>5
        <4> QED
          BY <3>1, <3>3, <4>1, <2>5 DEF TopOf
      <3> QED
        BY <3>2, <3>3
    <2> HIDE DEF s, c, left
    <2>10. /\ r \in MachineType /\ r.sys = s /\ r.cpu = c /\ r.frames = fs
           /\ r.activeStack = rest
      <3> HIDE DEF r
      <3> QED
        BY <1>1, <2>2, <2>5, <2>7, <2>8 DEF MachineType, Sampled
    <2> HIDE DEF r
    <2>11. Agree(r)
      <3>1. ASSUME NEW i \in 1..(n - 1)
            PROVE  /\ fs[i].ipsr = IF i = 1 THEN Thread ELSE rest[i - 1]
                   /\ fs[i].fromHandler <=> i > 1
        <4>1. i \in 1..Len(k.frames) /\ (i = 1 \/ i - 1 \in 1..(n - 1))
          BY <2>3
        <4>2. fs[i] = k.frames[i] /\ (i # 1 => rest[i - 1] = k.activeStack[i - 1])
          BY <4>1, <2>5
        <4> QED
          BY <4>1, <4>2, <1>1 DEF Agree
      <3> QED
        BY <3>1, <2>5, <2>7, <2>8, <2>9, <2>10 DEF Agree
    <2>12. MachineOK(r) /\ SameInputs(k.sys, r.sys) /\ r.cpu.masks = k.cpu.masks
      BY <1>1, <2>3, <2>5, <2>7, <2>8, <2>10, <2>11, FrameAssumption DEF MachineOK
    <2> QED
      BY <2>12 DEF r
  <1> QED
    BY <1>2, <1>3

(* Each stage of the boundary keeps the machine consistent.                *)
LEMMA SettleOK ==
    ASSUME NEW k, MachineOK(k), Running(k)
    PROVE  LET r == SettleReset(SettlePending(SettleException(SettleReturn(k))))
           IN  /\ MachineOK(r) /\ r.sys.lines = k.sys.lines
               /\ Running(r) =>
                     \A f \in Exceptions : ~Takable(r.sys, r.cpu.masks, f)
  <1> DEFINE k1 == SettleReturn(k)
             k2 == SettleException(k1)
             k3 == SettlePending(k2)
             k4 == SettleReset(k3)
  <1>1. MachineOK(k1) /\ k1.sys.lines = k.sys.lines
    <2>1. CASE k.cpu.excReturn
      <3> DEFINE j == [k EXCEPT !.cpu.excReturn = FALSE]
      <3>1. /\ j \in MachineType /\ j.sys = k.sys /\ j.frames = k.frames
            /\ j.activeStack = k.activeStack /\ j.cpu.ipsr = k.cpu.ipsr
            /\ j.phase = k.phase
        BY DEF MachineOK, MachineType, CpuState
      <3>2. k1 = ExceptionReturn(j)
        BY <2>1 DEF SettleReturn
      <3> HIDE DEF j
      <3>3. MachineOK(j) /\ Running(j)
        BY <3>1 DEF MachineOK, Agree, Running
      <3> HIDE DEF k1
      <3> QED
        BY <3>1, <3>2, <3>3, ReturnOK DEF SameInputs
    <2>2. CASE ~k.cpu.excReturn
      BY <2>2 DEF SettleReturn
    <2> QED
      BY <2>1, <2>2
  <1> HIDE DEF k1
  <1>2. MachineOK(k2) /\ k2.sys.lines = k.sys.lines
    <2>1. CASE Running(k1) /\ k1.cpu.svc
      <3> DEFINE j == [k1 EXCEPT !.cpu.svc = FALSE]
      <3>1. /\ j \in MachineType /\ j.sys = k1.sys /\ j.frames = k1.frames
            /\ j.activeStack = k1.activeStack /\ j.cpu.ipsr = k1.cpu.ipsr
            /\ j.phase = k1.phase
        BY <1>1 DEF MachineOK, MachineType, CpuState
      <3>2. k2 = Enter(j, SVCall) /\ SVCall \in Exceptions
        BY <2>1 DEF SettleException, Exceptions, SystemExceptions
      <3> HIDE DEF j
      <3>3. MachineOK(j) /\ Running(j)
        BY <1>1, <2>1, <3>1 DEF MachineOK, Agree, Running
      <3> HIDE DEF k2
      <3> QED
        BY <1>1, <3>1, <3>2, <3>3, EnterOK DEF SameInputs
    <2>2. CASE ~(Running(k1) /\ k1.cpu.svc)
      BY <1>1, <2>2 DEF SettleException
    <2> QED
      BY <2>1, <2>2
  <1> HIDE DEF k2
  <1>3. /\ MachineOK(k3) /\ k3.sys.lines = k.sys.lines
        /\ Running(k3) => \A f \in Exceptions : ~Takable(k3.sys, k3.cpu.masks, f)
    <2> DEFINE e == NextPending(k2.sys, k2.cpu.masks)
    <2>1. CASE Running(k2) /\ HasEnabledPending(k2.sys) /\ e # Thread
      <3>1. k3 = Enter(k2, e)
        BY <2>1 DEF SettlePending, EnterPending
      <3>2. e \in Exceptions
        BY <1>2, <2>1, NextPendingTakable DEF MachineOK, Sampled
      <3>3. Sampled(k2.sys)
        BY <1>2 DEF MachineOK
      <3>4. \A f \in Exceptions : ~Takable(EnterException(k2.sys, e), k2.cpu.masks, f)
        BY <2>1, <3>3, OneEntryIsEnough
      <3> HIDE DEF e, k3
      <3>5. /\ MachineOK(k3) /\ SameInputs(k2.sys, k3.sys)
            /\ Running(k3) => k3.sys = EnterException(k2.sys, e)
            /\ k3.cpu.masks = k2.cpu.masks
        BY <1>2, <2>1, <3>1, <3>2, EnterOK
      <3> QED
        BY <1>2, <3>4, <3>5 DEF SameInputs
    <2>2. CASE ~(Running(k2) /\ HasEnabledPending(k2.sys) /\ e # Thread)
      <3>1. k3 = k2
        BY <2>2 DEF SettlePending, EnterPending
      <3>2. Running(k2) => \A f \in Exceptions : ~Takable(k2.sys, k2.cpu.masks, f)
        <4>1. Sampled(k2.sys)
          BY <1>2 DEF MachineOK
        <4> QED
          BY <2>2, <4>1, NothingToTake
      <3> QED
        BY <1>2, <3>1, <3>2
    <2> QED
      BY <2>1, <2>2
  <1> HIDE DEF k3
  <1>4. /\ MachineOK(k4) /\ k4.sys.lines = k.sys.lines
        /\ Running(k4) => \A f \in Exceptions : ~Takable(k4.sys, k4.cpu.masks, f)
    <2>1. CASE Running(k3) /\ k3.sys.resetRequested
      <3>1. k4 = [k3 EXCEPT !.sys.resetRequested = FALSE,
                            !.phase = "reset_requested"]
        BY <2>1 DEF SettleReset
      <3>2. /\ k4 \in MachineType /\ k4.frames = k3.frames /\ k4.cpu = k3.cpu
            /\ k4.activeStack = k3.activeStack /\ ~Running(k4)
            /\ k4.sys = [k3.sys EXCEPT !.resetRequested = FALSE]
        <4> DEFINE t == [k3.sys EXCEPT !.resetRequested = FALSE]
        <4>1. t \in SystemState
          BY <1>3 DEF MachineOK, Sampled, SystemState
        <4>2. k4 = [k3 EXCEPT !.sys = t, !.phase = "reset_requested"]
          BY <1>3, <3>1 DEF MachineOK, MachineType
        <4> HIDE DEF t
        <4>3. /\ k4 \in MachineType /\ k4.frames = k3.frames /\ k4.cpu = k3.cpu
              /\ k4.activeStack = k3.activeStack /\ k4.sys = t
              /\ k4.phase = "reset_requested"
          BY <1>3, <4>1, <4>2 DEF MachineOK, MachineType
        <4> QED
          BY <4>3 DEF t, Running
      <3> HIDE DEF k4
      <3>3. /\ k4.sys.current = k3.sys.current /\ k4.sys.lines = k3.sys.lines
            /\ Sampled(k4.sys)
        BY <1>3, <3>2 DEF MachineOK, Sampled, SystemState
      <3> QED
        BY <1>3, <3>2, <3>3 DEF MachineOK, Agree
    <2>2. CASE ~(Running(k3) /\ k3.sys.resetRequested)
      BY <1>3, <2>2 DEF SettleReset
    <2> QED
      BY <2>1, <2>2
  <1> QED
    BY <1>4 DEF k1, k2, k3, k4

-----------------------------------------------------------------------------
(* The inductive invariant: the machine is consistent and a line is the    *)
(* disjunction of its sources.                                             *)
LinesAreSources == sys.lines = {q \in Irqs : sources[q] # {}}

IInv ==
    /\ TypeOK
    /\ MachineOK(Machine)
    /\ LinesAreSources

(* The parts of MachineOK.                                                 *)
LEMMA MachineParts ==
    ASSUME NEW s, NEW c, NEW a, NEW f, NEW p, NEW k,
           k = [sys |-> s, cpu |-> c, activeStack |-> a, frames |-> f, phase |-> p]
    PROVE  MachineOK(k) <=>
               /\ c \in CpuState
               /\ a \in Seq(Exceptions) /\ f \in Seq(Frame)
               /\ p \in {"fetch", "settle", "architectural_fault", "reset_requested"}
               /\ Sampled(s) /\ Len(f) <= MaxFrames
               /\ Agree(k)
  <1>1. /\ k.sys = s /\ k.cpu = c /\ k.frames = f
        /\ k.activeStack = a /\ k.phase = p
    OBVIOUS
  <1>2. k \in MachineType <=>
          /\ s \in SystemState /\ c \in CpuState
          /\ a \in Seq(Exceptions) /\ f \in Seq(Frame)
          /\ p \in {"fetch", "settle", "architectural_fault", "reset_requested"}
    BY DEF MachineType
  <1> QED
    BY <1>1, <1>2 DEF MachineOK, Sampled

(* Nothing the agreement or the lines depend on changed from s to t.       *)
Fine(s, t) == Sampled(t) /\ t.current = s.current /\ t.lines = s.lines

(* A write to the NVIC enable or pending registers samples the lines.      *)
LEMMA NvicWrites ==
    ASSUME NEW s, Sampled(s), NEW q \in Irqs
    PROVE  /\ Fine(s, WriteISER(s, {q})) /\ Fine(s, WriteICER(s, {q}))
           /\ Fine(s, WriteISPR(s, {q})) /\ Fine(s, WriteICPR(s, {q}))
           /\ Fine(s, WriteSTIR(s, q))
  <1> DEFINE Typed(t) == t \in SystemState /\ t.current = s.current /\ t.lines = s.lines
  <1>1. ASSUME NEW t, Typed(t) PROVE Fine(s, RefreshPendingSummary(t))
    BY <1>1, RefreshSamples DEF SameInputs, Fine
  <1>2. /\ Typed([s EXCEPT !.enable = @ \cup {q}]) /\ Typed([s EXCEPT !.enable = @ \ {q}])
        /\ Typed([s EXCEPT !.pending = @ \cup {q}]) /\ Typed([s EXCEPT !.pending = @ \ {q}])
    BY DEF Sampled, SystemState
  <1>3. q \notin {PendSV, SysTick}
    BY IrqAssumption DEF PendSV, SysTick
  <1> HIDE DEF Typed
  <1> QED
    BY <1>1, <1>2, <1>3
       DEF WriteISER, WriteICER, WriteISPR, WriteICPR, WriteSTIR, Pend

(* A write to the SCB or to a priority leaves the external state alone.    *)
LEMMA ScbWrites ==
    ASSUME NEW s, Sampled(s), NEW e \in Exceptions, NEW level \in Levels,
           NEW bit \in {PendSV, SysTick}
    PROVE  /\ Fine(s, WriteICSR(s, {bit}, {})) /\ Fine(s, WriteICSR(s, {}, {bit}))
           /\ Fine(s, WritePriority(s, e, level)) /\ Fine(s, WriteAIRCR(s))
           /\ Fine(s, [s EXCEPT !.system = @ \cup {bit}])
  <1>1. Fine(s, WriteICSR(s, {bit}, {})) /\ Fine(s, WriteICSR(s, {}, {bit}))
    BY DEF WriteICSR, Sampled, SystemState, Fine
  <1>2. Fine(s, WritePriority(s, e, level))
    <2>1. [s.priority EXCEPT ![e] = level] \in [Exceptions -> Levels]
      BY DEF Sampled, SystemState
    <2>2. WritePriority(s, e, level)
            = [s EXCEPT !.priority = [s.priority EXCEPT ![e] = level]]
      BY DEF WritePriority, Sampled, SystemState
    <2> QED
      BY <2>1, <2>2 DEF Sampled, SystemState, Fine
  <1>3. Fine(s, WriteAIRCR(s)) /\ Fine(s, [s EXCEPT !.system = @ \cup {bit}])
    BY DEF WriteAIRCR, Sampled, SystemState, Fine
  <1> QED
    BY <1>1, <1>2, <1>3

LEMMA InitIInv == Init => IInv
  <1> SUFFICES ASSUME Init PROVE IInv
    OBVIOUS
  <1>1. PICK p \in PriorityMaps : sys = [ResetState EXCEPT !.priority = p]
    BY DEF Init
  <1>2. p \in [Exceptions -> Levels]
    BY PriorityAssumption
  <1>3. /\ sys \in SystemState /\ Sampled(sys) /\ sys.current = Thread
        /\ sys.lines = {}
    <2>1. ResetState \in SystemState
      BY LevelAssumption DEF ResetState, SystemState
    <2> QED
      BY <1>1, <1>2, <2>1 DEF ResetState, SystemState, Sampled
  <1>4. cpu \in CpuState /\ cpu.ipsr = Thread /\ threadFp \in Fp
    <2>1. Reset.fp \in FpValues
      BY FpAssumption DEF Reset
    <2>2. Unmasked \in Mask
      BY LevelAssumption DEF Unmasked, Mask
    <2> QED
      BY <2>1, <2>2, FrameAssumption DEF Init, Reset, CpuState, Fp
  <1>5. /\ activeStack = <<>> /\ frames = <<>> /\ phase = "fetch"
        /\ fpccr \in SUBSET {"ASPEN", "LSPEN"} /\ sources = [q \in Irqs |-> {}]
    BY FpAssumption DEF Init
  <1>6. Agree(Machine)
    <2>1. /\ Machine.sys = sys /\ Machine.cpu = cpu /\ Machine.frames = <<>>
          /\ Machine.activeStack = <<>>
      BY <1>5 DEF Machine
    <2> QED
      BY <1>3, <1>4, <2>1 DEF Agree, TopOf
  <1>7. MachineOK(Machine)
    <2>1. /\ activeStack \in Seq(Exceptions) /\ frames \in Seq(Frame)
          /\ Len(frames) <= MaxFrames
      BY <1>5, FrameAssumption
    <2>2. MachineOK(Machine)
      <3>1. phase \in {"fetch", "settle", "architectural_fault", "reset_requested"}
        BY <1>5
      <3> QED
        BY <1>3, <1>4, <1>6, <2>1, <3>1, MachineParts DEF Machine
    <2> QED
      BY <2>2
  <1>8. TypeOK
    BY <1>3, <1>4, <1>5, FrameAssumption DEF TypeOK
  <1> QED
    BY <1>3, <1>5, <1>7, <1>8 DEF IInv, LinesAreSources

(* An instruction that stores a sampled state.                             *)
LEMMA StoreOK ==
    ASSUME IInv, NEW t, Fine(sys, t), Store(t)
    PROVE  IInv'
  <1>1. /\ sys' = t /\ cpu' = cpu /\ activeStack' = activeStack
        /\ frames' = frames /\ fpccr' = fpccr /\ threadFp' = threadFp
        /\ sources' = sources /\ phase' = "settle"
    BY DEF Store, Retire
  <1>2. Agree(Machine)'
    <2>1. Agree(Machine)
      BY DEF IInv, MachineOK
    <2> QED
      BY <1>1, <2>1 DEF Agree, Machine, Fine
  <1>3. MachineOK(Machine)
    BY DEF IInv
  <1>4. t \in SystemState
    BY DEF Sampled, Fine
  <1>5. MachineOK(Machine)'
    <2>1. /\ cpu \in CpuState /\ activeStack \in Seq(Exceptions)
          /\ frames \in Seq(Frame) /\ Len(frames) <= MaxFrames
      BY DEF IInv, TypeOK
    <2> QED
      BY <1>1, <1>2, <2>1, MachineParts DEF Machine, Fine
  <1>6. TypeOK'
    BY <1>1, <1>4 DEF IInv, TypeOK
  <1> QED
    BY <1>1, <1>5, <1>6 DEF IInv, LinesAreSources, Fine

(* An instruction that changes neither the IPSR nor a frame's link.        *)
LEMMA ExecuteOK ==
    ASSUME IInv, sys' = sys, sources' = sources, activeStack' = activeStack,
           fpccr' = fpccr, phase' = "settle", cpu' \in CpuState,
           cpu'.ipsr = cpu.ipsr, threadFp' \in Fp,
           frames' \in Seq(Frame), Len(frames') = Len(frames),
           \A i \in 1..Len(frames) : /\ frames'[i].ipsr = frames[i].ipsr
                                     /\ frames'[i].fromHandler = frames[i].fromHandler
    PROVE  IInv'
  <1>1. MachineOK(Machine) /\ Agree(Machine)
    BY DEF IInv, MachineOK
  <1>2. Agree(Machine)'
    <2>1. /\ Machine.sys = sys /\ Machine.cpu = cpu /\ Machine.frames = frames
          /\ Machine.activeStack = activeStack
      BY DEF Machine
    <2>2. /\ Machine'.sys = sys /\ Machine'.cpu = cpu' /\ Machine'.frames = frames'
          /\ Machine'.activeStack = activeStack
      BY DEF Machine
    <2> QED
      BY <1>1, <2>1, <2>2 DEF Agree
  <1>3. MachineOK(Machine)'
    <2>1. /\ activeStack \in Seq(Exceptions) /\ Len(frames) <= MaxFrames
          /\ Sampled(sys)
      BY <1>1 DEF IInv, TypeOK, MachineOK, Machine
    <2> QED
      BY <1>2, <2>1, MachineParts DEF Machine
  <1>4. TypeOK'
    BY DEF IInv, TypeOK
  <1> QED
    BY <1>3, <1>4 DEF IInv, LinesAreSources

(* A device step: only the NVIC and the sources change.                    *)
LEMMA DeviceOK ==
    ASSUME IInv, Sampled(sys'), sys'.current = sys.current,
           sources' \in [Irqs -> SUBSET Sources], LinesAreSources',
           cpu' = cpu, activeStack' = activeStack, frames' = frames,
           fpccr' = fpccr, phase' = phase, threadFp' = threadFp
    PROVE  IInv'
  <1>1. Agree(Machine)'
    <2>1. Agree(Machine)
      BY DEF IInv, MachineOK
    <2> QED
      BY <2>1 DEF Agree, Machine
  <1>2. /\ cpu \in CpuState /\ activeStack \in Seq(Exceptions)
        /\ frames \in Seq(Frame) /\ Len(frames) <= MaxFrames
        /\ phase \in {"fetch", "settle", "architectural_fault", "reset_requested"}
    BY DEF IInv, TypeOK
  <1>3. MachineOK(Machine)'
    BY <1>1, <1>2, MachineParts DEF Machine
  <1>4. TypeOK'
    BY DEF IInv, TypeOK, Sampled
  <1> QED
    BY <1>3, <1>4 DEF IInv

(* The interrupt callback: the line follows its sources.                   *)
LEMMA DriveLineOK ==
    ASSUME IInv, NEW q \in Irqs, NEW p \in Sources, NEW b \in BOOLEAN,
           DriveLine(q, p, b)
    PROVE  IInv'
  <1> DEFINE src == [sources EXCEPT ![q] = IF b THEN @ \cup {p} ELSE @ \ {p}]
             on == src[q] # {}
             t == [sys EXCEPT !.lines = IF on THEN @ \cup {q} ELSE @ \ {q},
                              !.pending = IF on /\ q \notin sys.lines
                                          THEN @ \cup {q} ELSE @]
  <1>1. /\ sources' = src /\ sys' = SetInterruptLine(sys, q, on)
        /\ cpu' = cpu /\ activeStack' = activeStack /\ frames' = frames
        /\ fpccr' = fpccr /\ phase' = phase /\ threadFp' = threadFp
    BY DEF DriveLine
  <1>2. sources \in [Irqs -> SUBSET Sources] /\ sys \in SystemState
    BY DEF IInv, TypeOK
  <1>3. /\ src \in [Irqs -> SUBSET Sources]
        /\ \A r \in Irqs \ {q} : src[r] = sources[r]
    BY <1>2
  <1>4. sys' = RefreshPendingSummary(t)
    BY <1>1 DEF SetInterruptLine
  <1> HIDE DEF src
  <1>5. /\ t \in SystemState /\ t.current = sys.current
        /\ t.lines = IF on THEN sys.lines \cup {q} ELSE sys.lines \ {q}
    BY <1>2 DEF SystemState
  <1> HIDE DEF t
  <1>6. Sampled(sys') /\ sys'.current = sys.current /\ sys'.lines = t.lines
    BY <1>4, <1>5, RefreshSamples DEF SameInputs
  <1>7. LinesAreSources'
    BY <1>1, <1>3, <1>5, <1>6 DEF IInv, LinesAreSources
  <1> QED
    BY <1>1, <1>3, <1>6, <1>7, DeviceOK

LEMMA SettleIInv == IInv /\ SettleInstructionBoundary => IInv'
  <1> SUFFICES ASSUME IInv, SettleInstructionBoundary PROVE IInv'
    OBVIOUS
  <1> DEFINE after == SettleReset(SettlePending(SettleException(SettleReturn(Machine))))
  <1>1. MachineOK(Machine) /\ Running(Machine) /\ Machine.sys = sys
    BY DEF IInv, SettleInstructionBoundary, Running, Machine
  <1>2. MachineOK(after) /\ after.sys.lines = sys.lines
    BY <1>1, SettleOK
  <1>3. /\ sys' = after.sys /\ cpu' = after.cpu /\ frames' = after.frames
        /\ activeStack' = after.activeStack
        /\ phase' = IF after.phase = "settle" THEN "fetch" ELSE after.phase
        /\ sources' = sources /\ fpccr' = fpccr /\ threadFp' = threadFp
    BY DEF SettleInstructionBoundary
  <1> HIDE DEF after
  <1>4. /\ after \in MachineType /\ Sampled(after.sys)
        /\ Len(after.frames) <= MaxFrames /\ Agree(after)
    BY <1>2 DEF MachineOK
  <1>5. /\ sys' \in SystemState /\ cpu' \in CpuState /\ frames' \in Seq(Frame)
        /\ activeStack' \in Seq(Exceptions)
        /\ phase' \in {"fetch", "settle", "architectural_fault", "reset_requested"}
    BY <1>3, <1>4 DEF MachineType
  <1>6. Agree(Machine)'
    <2>1. /\ Machine'.sys = after.sys /\ Machine'.cpu = after.cpu
          /\ Machine'.frames = after.frames
          /\ Machine'.activeStack = after.activeStack
      BY <1>3 DEF Machine
    <2> QED
      BY <1>4, <2>1 DEF Agree
  <1>7. MachineOK(Machine)'
    BY <1>3, <1>4, <1>5, <1>6, MachineParts DEF Machine
  <1>8. TypeOK'
    BY <1>3, <1>4, <1>5 DEF IInv, TypeOK
  <1> QED
    BY <1>2, <1>3, <1>7, <1>8 DEF IInv, LinesAreSources

LEMMA NextIInv == IInv /\ [Next]_vars => IInv'
  <1> SUFFICES ASSUME IInv, [Next]_vars PROVE IInv'
    OBVIOUS
  <1>1. /\ Sampled(sys) /\ sys \in SystemState /\ cpu \in CpuState
        /\ frames \in Seq(Frame) /\ threadFp \in Fp /\ cpu.fp \in Fp
    BY DEF IInv, TypeOK, MachineOK, Machine, CpuState
  <1>2. CASE SettleInstructionBoundary
    BY <1>2, SettleIInv
  <1>3. CASE WriteEnable \/ WritePending
    <2>1. PICK q \in Irqs : \/ Store(WriteISER(sys, {q})) \/ Store(WriteICER(sys, {q}))
                            \/ Store(WriteISPR(sys, {q})) \/ Store(WriteICPR(sys, {q}))
                            \/ Store(WriteSTIR(sys, q))
      BY <1>3 DEF WriteEnable, WritePending
    <2>2. PICK t : Fine(sys, t) /\ Store(t)
      BY <1>1, <2>1, NvicWrites DEF Store
    <2> QED
      BY <2>2, StoreOK
  <1>4. CASE WriteSystemPending \/ WritePriorities \/ RequestReset
    <2>1. PendSV \in {PendSV, SysTick} /\ PendSV \in Exceptions /\ 0 \in Levels
      BY LevelAssumption DEF Exceptions, SystemExceptions
    <2>2. ASSUME WriteSystemPending PROVE \E t : Fine(sys, t) /\ Store(t)
      <3>1. PICK bit \in {PendSV, SysTick} :
              Store(WriteICSR(sys, {bit}, {})) \/ Store(WriteICSR(sys, {}, {bit}))
        BY <2>2 DEF WriteSystemPending
      <3> QED
        BY <1>1, <2>1, <3>1, ScbWrites DEF Store
    <2>3. ASSUME WritePriorities PROVE \E t : Fine(sys, t) /\ Store(t)
      <3>1. PICK e \in Exceptions, p \in PriorityMaps : Store(WritePriority(sys, e, p[e]))
        BY <2>3 DEF WritePriorities
      <3>2. p[e] \in Levels
        BY PriorityAssumption
      <3> QED
        BY <1>1, <2>1, <3>1, <3>2, ScbWrites DEF Store
    <2>4. ASSUME RequestReset PROVE \E t : Fine(sys, t) /\ Store(t)
      BY <1>1, <2>1, <2>4, ScbWrites DEF RequestReset, Store
    <2>5. PICK t : Fine(sys, t) /\ Store(t)
      BY <1>4, <2>2, <2>3, <2>4
    <2> QED
      BY <2>5, StoreOK
  <1>5. CASE Other \/ WriteMasks \/ SupervisorCall \/ BranchExcReturn \/ WriteControl
    <2>1. /\ sys' = sys /\ sources' = sources /\ activeStack' = activeStack
          /\ fpccr' = fpccr /\ phase' = "settle" /\ frames' = frames
      BY <1>5 DEF Other, WriteMasks, SupervisorCall, BranchExcReturn,
                  WriteControl, Execute, Retire
    <2>2. threadFp' \in Fp
      BY <1>1, <1>5 DEF Other, WriteMasks, SupervisorCall, BranchExcReturn, WriteControl
    <2>3. cpu' \in CpuState /\ cpu'.ipsr = cpu.ipsr
      <3>1. CASE Other
        BY <3>1, <1>1 DEF Other, Execute
      <3>2. CASE WriteMasks
        <4>1. PICK m \in Mask : cpu' = [cpu EXCEPT !.masks = m]
          BY <3>2, MaskAssumption DEF WriteMasks, Execute, Mask
        <4> QED
          BY <4>1, <1>1 DEF CpuState
      <3>3. CASE SupervisorCall
        BY <3>3, <1>1 DEF SupervisorCall, Execute, CpuState
      <3>4. CASE BranchExcReturn
        BY <3>4, <1>1 DEF BranchExcReturn, Execute, CpuState
      <3>5. CASE WriteControl
        BY <3>5, <1>1 DEF WriteControl, Execute, CpuState
      <3> QED
        BY <1>5, <3>1, <3>2, <3>3, <3>4, <3>5
    <2> QED
      BY <1>1, <2>1, <2>2, <2>3, ExecuteOK
  <1>6. CASE FpInstruction
    <2>1. PICK v \in FpValues : AccessFp(v)
      BY <1>6 DEF FpInstruction
    <2>2. /\ sys' = sys /\ sources' = sources /\ activeStack' = activeStack
          /\ fpccr' = fpccr /\ phase' = "settle"
      BY <2>1 DEF AccessFp, Retire
    <2>3. threadFp' \in Fp /\ v \in Fp
      BY <1>1, <2>1 DEF AccessFp, Fp
    <2>4. cpu' \in CpuState /\ cpu'.ipsr = cpu.ipsr
      <3>1. PICK a \in BOOLEAN, l \in BOOLEAN :
              cpu' = [cpu EXCEPT !.fpca = a, !.fp = v, !.lazyActive = l]
        BY <1>1, <2>1 DEF AccessFp, CpuState
      <3> QED
        BY <1>1, <2>3, <3>1 DEF CpuState
    <2>5. /\ frames' \in Seq(Frame) /\ Len(frames') = Len(frames)
          /\ \A i \in 1..Len(frames) :
                /\ frames'[i].ipsr = frames[i].ipsr
                /\ frames'[i].fromHandler = frames[i].fromHandler
      <3>1. \/ frames' = frames
            \/ frames' = [frames EXCEPT ![cpu.lazyBase].area = cpu.fp]
        BY <2>1 DEF AccessFp
      <3>2. \A i \in 1..Len(frames) : frames[i] \in Frame
        BY <1>1
      <3>3. \A i \in 1..Len(frames) : [frames[i] EXCEPT !.area = cpu.fp] \in Frame
        BY <1>1, <3>2 DEF Frame
      <3>4. CASE frames' = [frames EXCEPT ![cpu.lazyBase].area = cpu.fp]
        <4>1. frames' \in Seq(Frame) /\ Len(frames') = Len(frames)
          <5>1. CASE cpu.lazyBase \in 1..Len(frames)
            <6>1. PICK f \in Frame, b \in 1..Len(frames) :
                    frames' = [frames EXCEPT ![b] = f]
              BY <3>3, <3>4, <5>1
            <6> QED
              BY <1>1, <6>1
          <5>2. CASE cpu.lazyBase \notin 1..Len(frames)
            <6>1. frames' = frames
              BY <1>1, <3>4, <5>2
            <6> QED
              BY <1>1, <6>1
          <5> QED
            BY <5>1, <5>2
        <4>2. \A i \in 1..Len(frames) :
                frames'[i] = frames[i] \/ frames'[i] = [frames[i] EXCEPT !.area = cpu.fp]
          BY <1>1, <3>4
        <4> QED
          BY <3>2, <4>1, <4>2 DEF Frame
      <3> QED
        BY <1>1, <3>1, <3>4
    <2> QED
      BY <2>2, <2>3, <2>4, <2>5, ExecuteOK
  <1>7. CASE DeviceLine
    BY <1>7, DriveLineOK DEF DeviceLine
  <1>8. CASE SysTickWraps
    <2>1. Fine(sys, sys')
      <3>1. SysTick \in {PendSV, SysTick} /\ PendSV \in Exceptions /\ 0 \in Levels
        BY LevelAssumption DEF Exceptions, SystemExceptions
      <3> QED
        BY <1>1, <1>8, <3>1, ScbWrites DEF SysTickWraps
    <2>2. LinesAreSources' /\ sources' \in [Irqs -> SUBSET Sources]
      BY <1>8, <2>1 DEF SysTickWraps, IInv, TypeOK, LinesAreSources, Fine
    <2> QED
      BY <1>8, <2>1, <2>2, DeviceOK DEF SysTickWraps, Fine
  <1>9. CASE UNCHANGED vars
    <2>1. LinesAreSources' /\ sources' \in [Irqs -> SUBSET Sources] /\ Fine(sys, sys')
      BY <1>1, <1>9 DEF vars, IInv, TypeOK, LinesAreSources, Fine
    <2> QED
      BY <1>9, <2>1, DeviceOK DEF vars, Fine
  <1> QED
    BY <1>2, <1>3, <1>4, <1>5, <1>6, <1>7, <1>8, <1>9 DEF Next

LEMMA InvariantHolds == Spec => []IInv
  BY InitIInv, NextIInv, PTL DEF Spec

(* Every field keeps its type; in particular the exception frames never    *)
(* outgrow the writable stack.                                             *)
THEOREM MachineTyped == Spec => []TypeOK
  <1>1. IInv => TypeOK
    BY DEF IInv
  <1> QED
    BY <1>1, InvariantHolds, PTL

(* enter(), exceptionReturn(), leave() and resume() keep the four records  *)
(* of the nesting in agreement, whatever firmware and devices do.          *)
THEOREM NestingAgrees == Spec => []ActiveAgrees
  <1>1. IInv => ActiveAgrees
    <2> SUFFICES ASSUME IInv PROVE ActiveAgrees
      OBVIOUS
    <2>1. Agree(Machine) /\ frames \in Seq(Frame) /\ activeStack \in Seq(Exceptions)
      BY DEF IInv, TypeOK, MachineOK
    <2>2. Agree([sys |-> sys, cpu |-> cpu, activeStack |-> activeStack,
                 frames |-> frames, phase |-> phase])
      BY <2>1 DEF Machine
    <2>3. DOMAIN frames = 1..Len(frames)
      BY <2>1
    <2> QED
      BY <2>1, <2>2, <2>3 DEF ActiveAgrees, Agree, TopOf, Last
  <1> QED
    BY <1>1, InvariantHolds, PTL

(* refreshPendingSummary is called wherever it is needed: nextPending's    *)
(* guard never hides an enabled pending interrupt.                         *)
THEOREM SummaryIsExact == Spec => []SummaryExact
  <1>1. IInv => SummaryExact
    BY DEF IInv, MachineOK, Machine, Sampled, SummaryExact
  <1> QED
    BY <1>1, InvariantHolds, PTL

(* No asserted source of an inactive interrupt is ever forgotten.          *)
THEOREM LevelsStayPending == Spec => []LevelsRepend
  <1>1. IInv => LevelsRepend
    BY DEF IInv, MachineOK, Machine, Sampled, LevelsRepend, LinesAreSources
  <1> QED
    BY <1>1, InvariantHolds, PTL

(* The boundary takes the most urgent exception there is to take, so the   *)
(* next instruction runs in the right context.                             *)
THEOREM BoundaryTakesMostUrgent == Spec => []BoundarySettled
  <1>1. Init => BoundarySettled
    <2> SUFFICES ASSUME Init, NEW f \in Exceptions PROVE ~Takable(sys, cpu.masks, f)
      BY DEF BoundarySettled
    <2>1. PICK p \in PriorityMaps : sys = [ResetState EXCEPT !.priority = p]
      BY DEF Init
    <2>2. sys.system = {} /\ sys.pending = {}
      BY <2>1 DEF ResetState
    <2> QED
      BY <2>2 DEF Takable, IsPending
  <1>2. IInv /\ BoundarySettled /\ [Next]_vars => BoundarySettled'
    <2> SUFFICES ASSUME IInv, BoundarySettled, [Next]_vars, phase' = "fetch"
                 PROVE  BoundarySettled'
      BY DEF BoundarySettled
    <2>1. SettleInstructionBoundary \/ UNCHANGED vars
      BY DEF Next, Other, WriteEnable, WritePending, WriteSystemPending,
             WritePriorities, RequestReset, WriteMasks, SupervisorCall,
             BranchExcReturn, WriteControl, FpInstruction, DeviceLine,
             SysTickWraps, AccessFp, DriveLine, Store, Execute, Retire
    <2>2. CASE UNCHANGED vars
      BY <2>2 DEF vars, BoundarySettled
    <2>3. CASE SettleInstructionBoundary
      <3> DEFINE after == SettleReset(SettlePending(SettleException(
                              SettleReturn(Machine))))
      <3>1. MachineOK(Machine) /\ Running(Machine)
        BY <2>3 DEF IInv, SettleInstructionBoundary, Running, Machine
      <3>2. Running(after) =>
              \A f \in Exceptions : ~Takable(after.sys, after.cpu.masks, f)
        BY <3>1, SettleOK
      <3>3. /\ sys' = after.sys /\ cpu' = after.cpu
            /\ phase' = IF after.phase = "settle" THEN "fetch" ELSE after.phase
        BY <2>3 DEF SettleInstructionBoundary
      <3> HIDE DEF after
      <3>4. Running(after)
        BY <3>3 DEF Running
      <3> QED
        BY <3>2, <3>3, <3>4 DEF BoundarySettled
    <2> QED
      BY <2>1, <2>2, <2>3
  <1> QED
    BY <1>1, <1>2, InvariantHolds, PTL DEF Spec
=============================================================================
