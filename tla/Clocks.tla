------------------------------- MODULE Clocks -------------------------------
(***************************************************************************)
(* RccPeripheral and the AdcCommonPeripheral groups: clocks derived from   *)
(* registers, cached, and pushed through callbacks to the timers and to    *)
(* the converters.  A frequency is a small number; oscillators settle at   *)
(* once, so a ready bit is its enable bit (the HSE's only when fitted).    *)
(***************************************************************************)
EXTENDS Integers, FiniteSets

CONSTANTS
    Msi, Hsi, Hse,      \* 4 MHz, 16 MHz, the configured crystal
    HsePresent,         \* whether the board has the crystal
    PllConfigs,         \* PLLCFGR images: source, m, n, r, p, pen
    CommonControls,     \* CCR images of an ADC group: CKMODE and PRESC divider
    Hpre                \* AHB dividers firmware selects; 1 is "not divided"

ASSUME ClocksAssumption ==
    /\ {Msi, Hsi, Hse} \subseteq Nat \ {0} /\ HsePresent \in BOOLEAN
    /\ PllConfigs \subseteq [source : 0..3, m : Nat \ {0}, n : Nat \ {0}, r : Nat \ {0},
                             p : Nat \ {1}, pen : BOOLEAN]
    /\ CommonControls \subseteq [mode : 0..3, presc : Nat]

VARIABLE clk

Groups == {"adc12", "adc345"}
Oscillators == {"hsi", "hse", "pll"}
NoPll == [source |-> 0, m |-> 1, n |-> 1, r |-> 2, p |-> 7, pen |-> FALSE]
Independent == [mode |-> 0, presc |-> 1]

(* The inputs of one group, its CCR, its reset line and what it told its   *)
(* members; "active" says a member has ADEN, ADSTART or the like set.      *)
GroupReset == [hclk |-> Hsi, kernel |-> 0, enabled |-> FALSE, div1 |-> TRUE,
               ccr |-> Independent, held |-> FALSE, member |-> 0, active |-> FALSE]

(* Registers on the first line, then the values the RCC keeps of them.     *)
ClocksInit ==
    clk = [on |-> {"hsi"}, sw |-> 1, hpre |-> 1, pll |-> NoPll,
           select |-> [g \in Groups |-> 0], ahb2 |-> {}, ahb2rst |-> {},
           sys |-> Hsi, hclk |-> Hsi, kernel |-> [g \in Groups |-> 0],
           enabled |-> {}, div1 |-> TRUE,
           group |-> [g \in Groups |-> GroupReset], timer |-> Hsi]

-----------------------------------------------------------------------------
(* pllClockHz, the choice in updateSystemClock, hclkClockHz *)
PllClock(c) ==
    LET source == CASE c.pll.source = 1 -> Msi [] c.pll.source = 2 -> Hsi
                    [] c.pll.source = 3 -> Hse [] OTHER -> 0
    IN  IF source = 0 THEN Hsi ELSE ((source \div c.pll.m) * c.pll.n) \div c.pll.r

SelectedClock(c) ==
    CASE c.sw = 0 -> Msi
      [] c.sw = 2 /\ HsePresent -> Hse
      [] c.sw = 3 -> PllClock(c)
      [] OTHER -> Hsi

Ready(c) == IF HsePresent THEN c.on ELSE c.on \ {"hse"}

(* adcKernelClockHz: PLL-P when it is enabled, running and has a source.   *)
KernelClock(c, g) ==
    LET source == IF c.pll.source = 2 /\ "hsi" \in Ready(c) THEN Hsi
                  ELSE IF c.pll.source = 3 /\ "hse" \in Ready(c) THEN Hse ELSE 0
    IN  CASE c.select[g] = 2 -> c.sys
          [] c.select[g] = 1 /\ c.pll.pen /\ "pll" \in Ready(c) ->
                (source * c.pll.n) \div (c.pll.m * c.pll.p)
          [] OTHER -> 0

(* updateMemberClocks: an asynchronous kernel runs even when the bus       *)
(* interface clock is gated.                                               *)
MemberClock(u) ==
    LET async == IF u.ccr.presc = 0 THEN 0 ELSE u.kernel \div u.ccr.presc
        sync == CASE u.ccr.mode = 1 -> IF u.div1 THEN u.hclk ELSE 0
                  [] u.ccr.mode = 2 -> u.hclk \div 2
                  [] OTHER -> u.hclk \div 4
    IN  IF u.held THEN 0
        ELSE IF u.ccr.mode = 0 THEN async ELSE IF u.enabled THEN sync ELSE 0
UpdateMembers(u) == [u EXCEPT !.member = MemberClock(u)]

(* updateSystemClock with the callback to the timers.                      *)
UpdateSystemClock(c) ==
    LET next == SelectedClock(c)
    IN  IF next = 0 \/ next = c.sys THEN c ELSE [c EXCEPT !.sys = next, !.timer = next]

SetClockInputs(c) ==
    [c EXCEPT !.group = [g \in Groups |-> UpdateMembers([c.group[g] EXCEPT
        !.hclk = c.hclk, !.kernel = c.kernel[g], !.enabled = g \in c.enabled, !.div1 = c.div1])]]

(* Seeded fault: a change of the kernel clocks alone is not passed on.     *)
UpdateAdcClocksByBus(c, force) ==
    LET fresh == [c EXCEPT !.hclk = c.sys \div c.hpre,
                     !.kernel = [g \in Groups |-> KernelClock(c, g)],
                     !.enabled = c.ahb2, !.div1 = c.hpre = 1]
        same == fresh.hclk = c.hclk /\ fresh.enabled = c.enabled /\ fresh.div1 = c.div1
    IN  IF same /\ ~force THEN c ELSE SetClockInputs(fresh)

(* updateAdcClocks: nothing is passed on when nothing changed.             *)
UpdateAdcClocks(c, force) ==
    LET fresh == [c EXCEPT !.hclk = c.sys \div c.hpre,
                     !.kernel = [g \in Groups |-> KernelClock(c, g)],
                     !.enabled = c.ahb2, !.div1 = c.hpre = 1]
    IN  IF fresh = c /\ ~force THEN c ELSE SetClockInputs(fresh)

(* setGroupReset: CCR is cleared when the line is asserted.                *)
SetGroupReset(u, asserted) ==
    IF u.held = asserted THEN u
    ELSE UpdateMembers([u EXCEPT !.held = asserted,
                           !.ccr = IF asserted THEN Independent ELSE @,
                           !.active = @ /\ ~asserted])
UpdateAdcResets(c) ==
    [c EXCEPT !.group = [g \in Groups |-> SetGroupReset(c.group[g], g \in c.ahb2rst)]]

Derive(c) == UpdateAdcClocks(UpdateSystemClock(c), FALSE)

-----------------------------------------------------------------------------
WriteRccCr == \E on \in SUBSET Oscillators : clk' = Derive([clk EXCEPT !.on = on])
WriteRccCfgr == \E sw \in 0..3, h \in Hpre : clk' = Derive([clk EXCEPT !.sw = sw, !.hpre = h])
WritePllcfgr == \E p \in PllConfigs : clk' = Derive([clk EXCEPT !.pll = p])
WriteCcipr == \E g \in Groups, s \in 0..3 :
    clk' = UpdateAdcClocks([clk EXCEPT !.select[g] = s], FALSE)
WriteAhb2enr == \E on \in SUBSET Groups : clk' = UpdateAdcClocks([clk EXCEPT !.ahb2 = on], FALSE)
WriteAhb2rstr == \E r \in SUBSET Groups : clk' = UpdateAdcResets([clk EXCEPT !.ahb2rst = r])

(* CCR of a group: ignored in reset, the clock fields frozen while a       *)
(* member is active.                                                       *)
WriteCommonCcr == \E g \in Groups, v \in CommonControls :
    /\ ~clk.group[g].held
    /\ clk' = [clk EXCEPT !.group[g] =
          UpdateMembers(IF @.active THEN @ ELSE [@ EXCEPT !.ccr = v])]
MemberActivity == \E g \in Groups : ~clk.group[g].held /\ clk' = [clk EXCEPT !.group[g].active = ~@]

(* Stm32G4::reset: the RCC first, which drops the group resets; the groups *)
(* themselves last.                                                        *)
ResetClocks ==
    LET rcc == [clk EXCEPT !.on = {"hsi"}, !.sw = 1, !.hpre = 1, !.pll = NoPll,
                    !.select = [g \in Groups |-> 0], !.ahb2 = {}, !.ahb2rst = {},
                    !.sys = Hsi, !.hclk = Hsi, !.kernel = [g \in Groups |-> 0]]
        fanned == UpdateAdcResets(UpdateAdcClocks(rcc, TRUE))
        timed == IF clk.sys # Hsi THEN [fanned EXCEPT !.timer = Hsi] ELSE fanned
    IN  clk' = [timed EXCEPT !.group = [g \in Groups |->
                  UpdateMembers([timed.group[g] EXCEPT !.ccr = Independent, !.active = FALSE])]]

ClocksNext ==
    \/ WriteRccCr \/ WriteRccCfgr \/ WritePllcfgr \/ WriteCcipr \/ WriteAhb2enr
    \/ WriteAhb2rstr \/ WriteCommonCcr \/ MemberActivity \/ ResetClocks

-----------------------------------------------------------------------------
(* Every cached and every fanned-out clock is what the registers say, for  *)
(* any order of register writes and resets: the timers run at the selected *)
(* system clock, and the members of an ADC group at the clock that their   *)
(* mode, divider, gate, kernel selection and reset line give them.         *)
ClocksExact ==
    /\ clk.sys = SelectedClock(clk) /\ clk.timer = clk.sys
    /\ \A g \in Groups : clk.group[g].member =
          MemberClock([clk.group[g] EXCEPT !.hclk = SelectedClock(clk) \div clk.hpre,
              !.kernel = KernelClock(clk, g), !.enabled = g \in clk.ahb2,
              !.div1 = clk.hpre = 1, !.held = g \in clk.ahb2rst])
=============================================================================
