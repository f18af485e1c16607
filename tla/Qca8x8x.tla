------------------------------ MODULE Qca8x8x ------------------------------
(***************************************************************************)
(* The QCA8x8x of drivers/net/phy/qcom_qca8x8x.c: one chip with a clock    *)
(* controller, two serdes and four PHYs, used as four PHYs, as a switch,   *)
(* or as a switch whose fourth PHY bypasses it through serdes 0.  Every    *)
(* change of a link's speed reprograms generators ("RCG") that several     *)
(* clocks share, from what the registers and one static table say of the   *)
(* parents.  Frequencies are in kHz.                                       *)
(***************************************************************************)
EXTENDS Integers, FiniteSets

CONSTANTS
  Phys,      \* the PHYs in use, of 1 .. 4; 4 is the one that may bypass
  LinkEn,    \* those whose port's LINK_EN is set: the chip switches their MACs
  Speeds,    \* bound: speeds the PHYs report
  Unknown,   \* speed bits the driver does not know
  NeverRead  \* a PHY was not read since the last boot

VARIABLES
  dt,           \* the board's device tree: "phy", "switch" or "bypass"
  chip,         \* the registers, and the driver's static table of raw clocks
  dev_mode,     \* phydev -> the mode config found, or "none"
  next_port,    \* the port switch_link_update is at, or 0
  any_up,       \* its status
  phydev_link,  \* what startup leaves in the switch's phydev
  last_read     \* history: PHY -> [up, speed] read last and acted upon

vars == <<dt, chip, dev_mode, next_port, any_up, phydev_link, last_read>>

Cpu == 0
Port5 == 5
Bypass == 4
Ports == Phys \cup {Cpu, Port5}

\* A phydev for every PHY, or for the switch (at address 1), to which the
\* bypassing PHY is added.
Switch == 1
Devs == CASE dt = "phy" -> Phys [] dt = "switch" -> {Switch} [] dt = "bypass" -> {Switch, Bypass}
SwitchPhys == IF dt = "bypass" THEN Phys \ {Bypass} ELSE Phys

Qca8x8xAssumption ==
  /\ Phys \subseteq 1 .. 4 /\ {Switch, Bypass} \subseteq Phys
  /\ LinkEn \subseteq Phys
  /\ Speeds \subseteq {10, 100, 1000, 2500} /\ Unknown \notin Speeds

XO == 50000
GmiiClk(speed) == CASE speed = 2500 -> 312500 [] speed = 1000 -> 125000
                    [] speed = 100 -> 25000 [] speed = 10 -> 2500
XpcsClk == 78125

\* Each generator serves the clocks of one direction of one port; a divider
\* of their own stands before MAC, PHY and serdes clocks, another before the
\* XGMII clock.
Rcgs == (Ports \X {"tx", "rx"}) \cup ({Cpu} \X {"core", "ahb", "sys"})
Clocks == Ports \X {"tx", "rx"} \X {"gmii", "xgmii"}
Core == <<Cpu, "core", "gmii">>
Ahb == <<Cpu, "ahb", "gmii">>
Sys == <<Cpu, "sys", "gmii">>
RcgOf(clk) == <<clk[1], clk[2]>>
SwitchCore == <<Cpu, "core">>   \* branches, like those of ClkMask
Serdes0 == <<Cpu, "srds0">>

Rates(clk) ==
  CASE clk = Core -> {312500} [] clk = Ahb -> {104160} [] clk = Sys -> {25000}
    [] OTHER -> {2500, 25000, 125000, 312500}
                  \cup (IF clk[1] \in {Cpu, Port5} THEN {} ELSE {XpcsClk})

\* A generator's sources, each with the value that selects it.
Parents(k) ==
  {<<0, "XO">>} \cup
  CASE k[2] = "core" -> {<<1, "UNIPHY1_TX312P5M">>}
    [] k[2] = "ahb" -> {<<2, "UNIPHY1_TX312P5M">>}
    [] k[2] = "sys" -> {}
    [] k = <<Cpu, "tx">> -> {<<2, "UNIPHY1_TX">>}
    [] k = <<Cpu, "rx">> -> {<<1, "UNIPHY1_RX">>, <<2, "UNIPHY1_TX">>}
    [] k = <<Bypass, "tx">> -> {<<1, "UNIPHY0_RX">>, <<3, "UNIPHY1_TX312P5M">>,
                               <<7, "UNIPHY1_RX312P5M">>}
    [] k = <<Bypass, "rx">> -> {<<2, "UNIPHY0_TX">>, <<3, "UNIPHY1_TX312P5M">>}
    [] k = <<Port5, "tx">> -> {<<2, "UNIPHY0_TX">>}
    [] k = <<Port5, "rx">> -> {<<1, "UNIPHY0_RX">>, <<2, "UNIPHY0_TX">>}
    [] OTHER -> {<<6, "UNIPHY1_TX312P5M">>}
                  \cup (IF k[2] = "tx" THEN {<<7, "UNIPHY1_RX312P5M">>} ELSE {})

\* The raw clock of a serdes is what the table says, whichever direction.
Prate(c, parent) ==
  CASE parent = "XO" -> XO
    [] parent \in {"UNIPHY1_TX312P5M", "UNIPHY1_RX312P5M"} -> 312500
    [] parent \in {"UNIPHY0_RX", "UNIPHY0_TX"} -> c.raw[0]
    [] parent \in {"UNIPHY1_RX", "UNIPHY1_TX"} -> c.raw[1]

\* A source the generator has not is ignored.
ParentSet(rcg, k, parent) ==
  LET own == {x \in Parents(k) : x[2] = parent}
  IN IF own = {} THEN rcg[k] ELSE [rcg[k] EXCEPT !.src = (CHOOSE x \in own : TRUE)[1]]

\* The source now selected; 0 when its value means nothing or its rate is 0.
SourceRate(c, k) ==
  LET now == {x \in Parents(k) : x[1] = c.rcg[k].src}
  IN IF now = {} THEN 0 ELSE Prate(c, (CHOOSE x \in now : TRUE)[2])

\* prate / rate = (hdiv + 1) / 2; for a rate above twice the source's it
\* wraps, and all 32 bits of the register become ones.
HdivMax == 31
Hdiv(prate, rate) == (2 * prate) \div rate - 1
AllOnes == [src |-> 7, hdiv |-> HdivMax]

\* Mutant: a division by ten, once needed, stays.
ProgramTenStays(c, clk, hdiv, div) ==
  LET k == RcgOf(clk) IN
  [c EXCEPT !.cdiv[clk] = IF div = 0 THEN @ ELSE div,
            !.rcg[k] = IF hdiv \in 0 .. HdivMax THEN [@ EXCEPT !.hdiv = hdiv] ELSE AllOnes]

Program(c, clk, hdiv, div) ==
  LET k == RcgOf(clk) IN
  [c EXCEPT !.cdiv[clk] = div,
            !.rcg[k] = IF hdiv \in 0 .. HdivMax THEN [@ EXCEPT !.hdiv = hdiv] ELSE AllOnes]

\* qti_8x8x_clk_rate_set: the XPCS rate bypasses the generator, whose other
\* clock runs at four times that rate; a generator that cannot divide as far
\* has its divider divide by ten.
RateSet(c, clk, rate) ==
  LET prate == SourceRate(c, RcgOf(clk))
      direct == Hdiv(prate, rate)
  IN IF prate = 0 \/ rate \notin Rates(clk) \/ (rate = XpcsClk /\ prate # 312500) THEN c
     ELSE CASE rate = XpcsClk -> Program(c, clk, 0, 3)
            [] rate # XpcsClk /\ direct \in 0 .. HdivMax -> Program(c, clk, direct, 0)
            [] OTHER -> Program(c, clk, Hdiv(prate \div 10, rate), 9)

\* Receive before transmit, MAC before XGMII, which has another rate at 2.5G.
PortClkRateSet(c, p, rate) ==
  LET mac == RateSet(RateSet(c, <<p, "rx", "gmii">>, rate), <<p, "tx", "gmii">>, rate)
      xgmii == IF rate = 312500 THEN XpcsClk ELSE rate
  IN IF p \in {Cpu, Port5} THEN mac
     ELSE RateSet(RateSet(mac, <<p, "rx", "xgmii">>, xgmii), <<p, "tx", "xgmii">>, xgmii)

PortSpeedClockSet(c, p, speed) == PortClkRateSet(c, p, GmiiClk(speed))

\* The branches of a port that go on and off together. Their resets come
\* and go within one operation and leave nothing behind.
ClkEnSet(c, groups, enable) == [c EXCEPT !.on = IF enable THEN @ \cup groups ELSE @ \ groups]

PhyModes == {"PHY_UQXGMII", "PHY_SGMII_UQXGMII"}

\* What every mode needs. Nothing of this has a divider of its own.
CommonClkParentEnable(c, mode) ==
  LET rcg == [k \in Rcgs |-> CASE k[2] \in {"core", "ahb"} -> ParentSet(c.rcg, k, "UNIPHY1_TX312P5M")
                               [] k[2] = "sys" -> ParentSet(c.rcg, k, "XO")
                               [] OTHER -> c.rcg[k]]
      rated == RateSet(RateSet(RateSet([c EXCEPT !.rcg = rcg], Core, 312500), Ahb, 104160),
                       Sys, 25000)
  IN ClkEnSet(rated, {SwitchCore, Serdes0}, mode \notin PhyModes)

\* The source of a port's generators in each mode.
PortParent(mode, p, dir) ==
  CASE p = Cpu -> IF dir = "tx" THEN "UNIPHY1_TX" ELSE "UNIPHY1_RX"
    [] p = Port5 -> IF dir = "tx" THEN "UNIPHY0_TX" ELSE "UNIPHY0_RX"
    [] p = Bypass /\ mode \in {"SWITCH_BYPASS_PORT5", "PHY_SGMII_UQXGMII"} ->
         IF dir = "tx" THEN "UNIPHY0_RX" ELSE "UNIPHY0_TX"
    [] OTHER -> IF dir = "tx" /\ mode \in PhyModes THEN "UNIPHY1_RX312P5M" ELSE "UNIPHY1_TX312P5M"

GccPortClkParentSet(c, mode, ports) ==
  [c EXCEPT
     !.rcg = [k \in Rcgs |-> IF k[1] \in ports /\ k[2] \in {"tx", "rx"}
                             THEN ParentSet(c.rcg, k, PortParent(mode, k[1], k[2]))
                             ELSE c.rcg[k]],
     !.uniphy0_sel = IF Port5 \notin ports THEN @
                     ELSE IF mode \in {"SWITCH_BYPASS_PORT5", "PHY_SGMII_UQXGMII"}
                          THEN "MAC4" ELSE "MAC5"]

\* Which kinds of clock of which ports a mode uses.
ClkMask(mode, bmp) ==
  CASE mode = "SWITCH" ->
         (bmp \X {"mac"}) \cup ((bmp \cap {Cpu, Port5}) \X {"uniphy"})
           \cup ((bmp \ {Cpu, Port5}) \X {"ephy"})
    [] mode = "SWITCH_BYPASS_PORT5" ->
         ((bmp \ {Bypass, Port5}) \X {"mac"}) \cup {<<Cpu, "uniphy">>, <<Port5, "uniphy">>}
           \cup (((bmp \ {Cpu, Port5}) \cup {Bypass}) \X {"ephy"})
    [] mode = "PHY_UQXGMII" -> Phys \X {"uniphy", "ephy"}

\* The raw clocks not yet known are taken for 312.5 MHz; MAC clocks come on,
\* and the serdes clocks of a switch.
GccClockInit(c, mode, bmp) ==
  LET common == CommonClkParentEnable(c, mode)
      mask == ClkMask(mode, bmp)
      known == [common EXCEPT !.raw = [u \in {0, 1} |-> IF @[u] = 0 THEN 312500 ELSE @[u]]]
  IN ClkEnSet(GccPortClkParentSet(known, mode, {m[1] : m \in mask}),
              {m \in mask : m[2] # "ephy" /\ mode \notin PhyModes}, TRUE)

(* The serdes.                                                             *)

\* qti_8x8x_interface_uqxgmii_mode_set: channels start at 1G.
UqxgmiiModeSet(c) ==
  [ClkEnSet(c, Phys \X {"uniphy", "ephy"}, FALSE) EXCEPT
     !.serdes[1] = [mode |-> "XPCS", side |-> "none"],
     !.xpcs_rst = FALSE, !.xpcs_speed = [p \in Phys |-> 1000]]

\* qti_8x8x_interface_sgmii_mode_set of serdes u for port p; a speed of 0
\* is autonegotiation. Serdes 0 is reached by the clocks of port 5.
SgmiiModeSet(c, u, p, config) ==
  LET groups == {<<IF u = 0 THEN Port5 ELSE p, "uniphy">>}
                  \cup (IF config.side = "PHY" THEN {<<p, "ephy">>} ELSE {})
      set == [c EXCEPT
        !.raw[u] = IF config.mode = "SGMII" THEN 125000 ELSE 312500,
        !.xpcs_rst = @ \/ u = 1,
        !.serdes[u] = [mode |-> config.mode, side |-> config.side]]
  IN ClkEnSet(IF config.speed = 0 THEN set ELSE PortSpeedClockSet(set, p, config.speed),
              groups, TRUE)

\* After either fixup the clocks run only if the link is up.
SgmiiSpeedFixup(c, link, speed) ==
  LET groups == {<<Bypass, "ephy">>, <<Port5, "uniphy">>}
      off == PortSpeedClockSet(ClkEnSet(c, groups, FALSE), Bypass, speed)
  IN IF link THEN ClkEnSet(off, groups, TRUE) ELSE off

UqxgmiiSpeedFixup(c, p, link, speed) ==
  [ClkEnSet(PortSpeedClockSet(c, p, speed), {p} \X {"uniphy", "ephy"}, link) EXCEPT
     !.xpcs_speed[p] = speed]

PhySgmiiModeSet(c, link, speed) ==
  SgmiiSpeedFixup(
    SgmiiModeSet(c, 0, Bypass, [mode |-> IF speed = 2500 THEN "SGMII_PLUS" ELSE "SGMII",
                                side |-> "PHY", speed |-> 0]), link, speed)

(* Configuration.                                                          *)

\* Serdes 0 on the PHY's side tells a bypass from a switch.
WorkModeInit(c) ==
  [c EXCEPT !.work_mode = IF c.serdes[0].side = "PHY" THEN "SWITCH_BYPASS_PORT5" ELSE "SWITCH"]

\* qti_8x8x_port_txmac_status_set and that of the rxmac, which refuse a PHY's
\* port whose LINK_EN is set, as nobody notices. The driver clears the bit of
\* the other ports alone.
MacStatusSet(mac_on, ports, enable) ==
  IF enable THEN mac_on \cup (ports \ LinkEn) ELSE mac_on \ (ports \ LinkEn)

\* No port transmits or receives until it is set up.
SwitchConfig(c, bmp) == [c EXCEPT !.mac_on = MacStatusSet(@, bmp, FALSE)]

\* The port to the processor has a fixed link of 2.5G; port 5 is not used,
\* and loses its system clock unless the bypass has serdes 0.
InterfaceModeInit(c) ==
  LET rated == GccPortClkParentSet([c EXCEPT !.mac_speed[Cpu] = 2500], c.work_mode, {Cpu})
      set == SgmiiModeSet(rated, 1, Cpu, [mode |-> "SGMII_PLUS", side |-> "MAC", speed |-> 2500])
      port5 == IF set.serdes[0].side = "PHY" THEN set ELSE ClkEnSet(set, {Serdes0}, FALSE)
  IN [port5 EXCEPT !.mac_on = MacStatusSet(@, {Cpu}, TRUE)]

SwitchInit(c) ==
  LET bmp == SwitchPhys \cup {Cpu}
      ready == InterfaceModeInit(SwitchConfig(WorkModeInit(c), bmp))
  IN GccClockInit(ready, ready.work_mode, bmp)

\* The chip after its reset, with what nss-switch.c writes first: the serdes
\* have their system clocks, the PHYs none.
ResetChip ==
  [work_mode |-> "PHY_UQXGMII",
   rcg |-> [k \in Rcgs |-> [src |-> 0, hdiv |-> 0]],
   cdiv |-> [clk \in Clocks \cup {Core, Ahb, Sys} |-> 0],
   on |-> {SwitchCore, Serdes0}, uniphy0_sel |-> "MAC5",
   serdes |-> [u \in {0, 1} |-> [mode |-> "reset", side |-> "none"]],
   xpcs_rst |-> FALSE, xpcs_speed |-> [p \in Phys |-> 0],
   mac_on |-> {}, mac_speed |-> [p \in Ports |-> 0],
   raw |-> [u \in {0, 1} |-> 0]]

Booted ==
  /\ dev_mode = [d \in Phys |-> "none"] /\ last_read = [p \in Phys |-> NeverRead]
  /\ next_port = 0 /\ any_up = FALSE /\ phydev_link = FALSE

Init == dt \in {"phy", "switch", "bypass"} /\ chip = ResetChip /\ Booted

\* qti_8x8x_config. A chip already in the mode of four PHYs has no clock in
\* its switch core; one found as a switch with bypass is taken for the
\* bypassing PHY, whichever phydev is asked.
ConfigBypassed(d) ==
  /\ chip.work_mode = "SWITCH_BYPASS_PORT5"
  /\ dev_mode' = [dev_mode EXCEPT ![d] = "bypass"]
  /\ UNCHANGED chip

ConfigPhy(d) ==
  /\ chip.work_mode # "SWITCH_BYPASS_PORT5" /\ dt = "phy"
  /\ dev_mode' = [dev_mode EXCEPT ![d] = "phy"]
  /\ chip' = IF SwitchCore \in chip.on THEN GccClockInit(UqxgmiiModeSet(chip), "PHY_UQXGMII", {})
             ELSE chip

ConfigSwitch(d) ==
  /\ chip.work_mode # "SWITCH_BYPASS_PORT5" /\ dt # "phy" /\ d = Switch
  /\ dev_mode' = [dev_mode EXCEPT ![d] = "switch"]
  /\ chip' = IF dt = "switch" THEN SwitchInit(chip)
             ELSE SwitchInit(PhySgmiiModeSet([chip EXCEPT !.work_mode = "PHY_SGMII_UQXGMII"],
                                             FALSE, 1000))

\* The phydevs are configured in their order, before any of them starts.
Config(d) ==
  /\ dev_mode[d] = "none" /\ \A e \in Devs : e < d => dev_mode[e] # "none"
  /\ ConfigBypassed(d) \/ ConfigPhy(d) \/ ConfigSwitch(d)
  /\ UNCHANGED <<dt, next_port, any_up, phydev_link, last_read>>

(* Start.                                                                  *)

Readings == [up : BOOLEAN, speed : Speeds \cup {Unknown}]
Ready == next_port = 0 /\ \A d \in Devs : dev_mode[d] # "none"
HasRead(p, r) == last_read' = [last_read EXCEPT ![p] = r]

\* qti_8x8x_startup of a PHY; without a speed it returns an error at once,
\* as it does for a bypass at another address than the fourth PHY's.
StartupFails(d, r) ==
  /\ Ready /\ dev_mode[d] \in {"phy", "bypass"}
  /\ dev_mode[d] = "phy" \/ d = Bypass => r.speed = Unknown
  /\ UNCHANGED vars

StartupPhy(d, r) ==
  /\ Ready /\ dev_mode[d] = "phy" /\ r.speed # Unknown
  /\ chip' = UqxgmiiSpeedFixup(chip, d, r.up, r.speed)
  /\ HasRead(d, r)
  /\ UNCHANGED <<dt, dev_mode, next_port, any_up, phydev_link>>

StartupBypass(d, r) ==
  /\ Ready /\ dev_mode[d] = "bypass" /\ d = Bypass /\ r.speed # Unknown
  /\ chip' = PhySgmiiModeSet(chip, r.up, r.speed)
  /\ HasRead(d, r)
  /\ UNCHANGED <<dt, dev_mode, next_port, any_up, phydev_link>>

StartupSwitch ==
  /\ Ready /\ dev_mode[Switch] = "switch"
  /\ next_port' = CHOOSE p \in SwitchPhys : \A q \in SwitchPhys : p <= q
  /\ any_up' = FALSE
  /\ UNCHANGED <<dt, chip, dev_mode, phydev_link, last_read>>

\* port_link_update, with the MAC off before it or on after it.
PortLinkUpdate(c, p, r) ==
  LET set == [PortSpeedClockSet(c, p, r.speed) EXCEPT
                !.mac_speed[p] = r.speed,
                !.mac_on = MacStatusSet(@, {p}, r.up)]
  IN ClkEnSet(set, {<<p, "ephy">>}, r.up)

\* When no port was up the phydev keeps the link it had.
Leave(up) == next_port' = 0 /\ phydev_link' = (phydev_link \/ up)

\* A link that is down counts as 10M, whatever its bits say.
SwitchLinkUpdate(r) ==
  LET status == IF r.up THEN r ELSE [r EXCEPT !.speed = 10]
      rest == {p \in SwitchPhys : p > next_port}
  IN /\ next_port # 0 /\ (r.up => r.speed # Unknown)
     /\ chip' = PortLinkUpdate(chip, next_port, status)
     /\ HasRead(next_port, status)
     /\ any_up' = (any_up \/ r.up)
     /\ IF rest = {} THEN Leave(any_up')
        ELSE next_port' = (CHOOSE p \in rest : \A q \in rest : p <= q) /\ UNCHANGED phydev_link
     /\ UNCHANGED <<dt, dev_mode>>

\* A speed that is none leaves this port and the later ones as they are.
SwitchLinkUpdateFails(r) ==
  /\ next_port # 0 /\ r.up /\ r.speed = Unknown
  /\ Leave(any_up)
  /\ UNCHANGED <<dt, chip, dev_mode, any_up, last_read>>

\* The machine starts again, the chip reset with it or (no reset line) not:
\* the driver's tables are lost in any case. What nss-switch.c writes first
\* (ipq_eth_8x8x_pre_init) it writes to a chip that was reset only: it ends
\* with a register that nothing else writes, and returns when it finds it so.
\* qti_8x8x_pre_init, which asks nothing, is called by no code.
Restart ==
  /\ chip' \in {ResetChip, [chip EXCEPT !.raw = ResetChip.raw]}
  /\ dev_mode' = [d \in Phys |-> "none"] /\ last_read' = [p \in Phys |-> NeverRead]
  /\ next_port' = 0 /\ any_up' = FALSE /\ phydev_link' = FALSE
  /\ UNCHANGED dt

Next ==
  \/ \E d \in Devs : Config(d)
  \/ \E d \in Devs, r \in Readings : StartupPhy(d, r) \/ StartupBypass(d, r) \/ StartupFails(d, r)
  \/ StartupSwitch
  \/ \E r \in Readings : SwitchLinkUpdate(r) \/ SwitchLinkUpdateFails(r)
  \/ Restart

Spec == Init /\ [][Next]_vars

TypeOK ==
  /\ dt \in {"phy", "switch", "bypass"}
  /\ dev_mode \in [Phys -> {"none", "phy", "switch", "bypass"}]
  /\ next_port \in Phys \cup {0} /\ any_up \in BOOLEAN /\ phydev_link \in BOOLEAN
  /\ chip.rcg \in [Rcgs -> [src : 0 .. 7, hdiv : 0 .. HdivMax]]
  /\ chip.raw \in [{0, 1} -> {0, 125000, 312500}]
  /\ last_read \in [Phys -> [up : BOOLEAN, speed : Speeds \cup {10}] \cup {NeverRead}]

\* The frequency of a clock as the chip makes it, told without a fraction.
Runs(clk, rate) ==
  LET k == RcgOf(clk)
      r == chip.rcg[k]
  IN 2 * SourceRate(chip, k) =
       rate * (IF r.hdiv = 0 THEN 2 ELSE r.hdiv + 1) * (chip.cdiv[clk] + 1)
RunsBoth(p, kind, rate) == \A dir \in {"tx", "rx"} : Runs(<<p, dir, kind>>, rate)
Gated(groups, on) == IF on THEN groups \subseteq chip.on ELSE groups \cap chip.on = {}

FollowsAsPhy(p, r) ==
  /\ Gated({p} \X {"uniphy", "ephy"}, r.up)
  /\ RunsBoth(p, "xgmii", IF r.speed = 2500 THEN XpcsClk ELSE GmiiClk(r.speed))
  /\ chip.xpcs_speed[p] = r.speed /\ ~chip.xpcs_rst /\ chip.serdes[1].mode = "XPCS"
FollowsAsBypass(r) ==
  /\ Gated({<<Bypass, "ephy">>, <<Port5, "uniphy">>}, r.up)
  /\ chip.uniphy0_sel = "MAC4" /\ chip.serdes[0].side = "PHY"
  /\ chip.serdes[0].mode = "SGMII_PLUS" <=> r.speed = 2500
FollowsAsSwitch(p, r) ==
  /\ Gated({<<p, "ephy">>}, r.up) /\ (p \in LinkEn \/ (p \in chip.mac_on <=> r.up))
  /\ chip.mac_speed[p] = r.speed
  /\ Gated({<<p, "mac">>, SwitchCore}, TRUE) /\ Runs(Core, 312500)
CpuFollows ==
  /\ RunsBoth(Cpu, "gmii", 312500) /\ Cpu \in chip.mac_on
  /\ Gated({Cpu} \X {"mac", "uniphy"}, TRUE)

\* A PHY the driver has read and acted upon has its clocks at exactly the
\* rate of its speed and on while its link is up, from generator, dividers,
\* source and serdes together: whatever speeds came before, whatever its
\* generator was left at by another mode, a wrapped division or the boot
\* before, and whatever the other ports do; and the MAC of its switch port is
\* on as its link is up, unless LINK_EN leaves that to the chip. So has the
\* port to the processor in a switch.
ClocksFollowLinks ==
  /\ \A p \in Phys : last_read[p] # NeverRead =>
       LET r == last_read[p] IN
       /\ RunsBoth(p, "gmii", GmiiClk(r.speed))
       /\ CASE dt = "phy" -> FollowsAsPhy(p, r)
            [] dt = "bypass" /\ p = Bypass -> FollowsAsBypass(r)
            [] OTHER -> FollowsAsSwitch(p, r)
  /\ dev_mode[Switch] = "switch" => CpuFollows
=============================================================================
