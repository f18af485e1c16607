----------------------------- MODULE PortLink ------------------------------
(***************************************************************************)
(* The Ethernet ports of drivers/net/qcom/nss-switch.c between the PHYs    *)
(* and the packet engine.  ipq_eth_probe connects each port's PHY,         *)
(* ipq_eth_start reads every link and, when the speed is another than it   *)
(* was set up for, chooses serdes mode, clock rate and MAC from the table  *)
(* of the SoC (port_config) and programs them.  Serdes ("uniphy") are      *)
(* shared between ports, and what the driver believes is kept per port.    *)
(***************************************************************************)
EXTENDS Integers, Sequences

CONSTANTS
  Boards,   \* [config, ports]: sequence of [phy_id, id, uniphy_id, xgmac]
  Speeds,   \* bound: speeds a link comes up at
  All,      \* active_port is not set
  NotRead    \* no link was read in this start

VARIABLES
  board,
  phase,            \* "off", "probe", "idle", "start" or "up"
  i,                \* the port the loop is at
  active_port,
  connected,        \* ports with a phydev
  isconfigured,     \* those whose PHY was configured
  cur_speed, cur_uniphy_mode, cur_gmac_type,  \* what the driver believes, per port
  uniphy,           \* serdes -> the mode it was last set to
  channel,          \* serdes -> channel -> index of the speed it runs at
  mux,              \* port -> the MAC PORT_MUX_CTRL gives it
  tx_mac,           \* ports with TX_MAC_EN
  xgmac, gmac,      \* port -> speed bits (SS) of its XGMAC, speed of its GMAC
  rate,             \* port -> the rate of its receive and transmit clocks
  reading,          \* history: port -> [link, speed] read in this start
  whole             \* history: ports whose last set-up ran to its end

driver == <<connected, isconfigured, cur_speed, cur_uniphy_mode, cur_gmac_type>>
hardware == <<uniphy, channel, mux, tx_mac, xgmac, gmac, rate>>
vars == <<board, phase, i, active_port, driver, hardware, reading, whole>>

SFP == "SFP10G"
Ports == DOMAIN board.ports
PhyId(p) == board.ports[p].phy_id
Uniphy(p) == board.ports[p].uniphy_id
Uniphys == {Uniphy(p) : p \in Ports}

\* mac_speed_config: the index of a speed in every table.
MacSpeed(s, has_xgmac) ==
  CASE s = 100 -> 1 [] s = 1000 -> 2 [] s = 10000 -> 3
    [] s = 2500 -> IF has_xgmac THEN 4 ELSE 2
    [] s = 5000 -> 5 [] OTHER -> 0

\* A row of port_config: clock in kHz, MAC and serdes mode by index; what
\* the table gives as -1 is "none".
Row(clk_rate, mac_mode, mode) == [clk_rate |-> clk_rate, mac_mode |-> mac_mode, mode |-> mode]
Slow(mac, mode, clk) ==
  Row(<<2500, 25000, 125000, -1, clk>>, <<"GMAC", "GMAC", "GMAC", "none", mac>>,
      <<"SGMII", "SGMII", "SGMII", "none", mode>>)
Same(x) == <<x, x, x, x, x, x>>
Gap(x) == <<x, x, x, "none", x>>
From(x) == <<"none", x, x, x, x, x>>
Usxgmii(ten, hundred) ==
  Row(<<ten, hundred, 125000, 312500, 78125, 156250>>, Same("XGMAC"), Same("USXGMII"))
SwitchRow == Row(<<312500, 312500, 312500, -1, 312500>>, Gap("XGMAC"), Gap("SGMII_PLUS"))
SfpRow == Row(Same(312500), Same("XGMAC"), Same("10GBASE_R"))
QCA81xxRow ==
  Row(<<-1, 12500, 125000, 312500, 78125, 156250>>, From("XGMAC"), From("USXGMII"))

ipq5424_port_config ==
  [t \in {"QCA8x8x_SWITCH", SFP, "AQ", "QCA81xx", "QCA8081"} |->
     CASE t = "QCA8x8x_SWITCH" -> SwitchRow [] t = SFP -> SfpRow
       [] t = "AQ" -> Usxgmii(1250, 12500) [] t = "QCA81xx" -> QCA81xxRow
       [] t = "QCA8081" -> Slow("XGMAC", "SGMII_PLUS", 312500)]

ipq9574_port_config ==
  [t \in {"QCA8075", "QCA8x8x_PHY", "QCA8x8x_SWITCH", "QCA8081", SFP, "AQ", "QCA81xx"} |->
     CASE t = "QCA8075" -> Row(<<2500, 25000, 125000>>, <<"GMAC", "GMAC", "GMAC">>,
                               <<"PSGMII", "PSGMII", "PSGMII">>)
       [] t = "QCA8x8x_PHY" -> Row(<<1250, 12500, 125000, -1, 78125>>, Gap("XGMAC"), Gap("UQXGMII"))
       [] t = "QCA8081" -> Slow("GMAC", "SGMII_PLUS", 312500)
       [] OTHER -> ipq5424_port_config[t]]

ipq5332_port_config ==
  [t \in {"QCA8x8x_BYPASS", "QCA8x8x_SWITCH", "QCA8081", SFP, "AQ", "QCA81xx", "QCA8033"} |->
     CASE t \in {"QCA8x8x_BYPASS", "QCA8081"} ->
            Slow("XGMAC", "SGMII_PLUS", 312500)
       [] t = "QCA8033" -> Slow("none", "none", -1)
       [] t = "AQ" -> Usxgmii(2500, 25000)
       [] OTHER -> ipq5424_port_config[t]]

ConfigOf(soc) ==
  CASE soc = "ipq9574" -> ipq9574_port_config
    [] soc = "ipq5332" -> ipq5332_port_config
    [] soc = "ipq5424" -> ipq5424_port_config
port_config == ConfigOf(board.config)

\* The speed's place in the row of the port.
Index(p, s) == 1 + MacSpeed(s, board.ports[p].xgmac)
Mode(p, s) == port_config[PhyId(p)].mode[Index(p, s)]
MacMode(p, s) == port_config[PhyId(p)].mac_mode[Index(p, s)]
ClkRate(p, s) == port_config[PhyId(p)].clk_rate[Index(p, s)]

\* Speeds the PHY can come up at, those the table has.
Offered(p) ==
  {s \in Speeds : Index(p, s) <= Len(port_config[PhyId(p)].mode) /\ Mode(p, s) # "none"}

\* Four channels on serdes 0, told apart by the id of the port.
Channel(p) ==
  LET id == board.ports[p].id IN IF Uniphy(p) = 0 /\ id \in 2 .. 4 THEN id - 1 ELSE 0
Fast == {"USXGMII", "UQXGMII"}

\* What the device trees have in common: a PHY the SoC's table knows on every
\* port, each serdes for one port, or for those of the four PHYs of one chip.
BoardAssumption(b) ==
  /\ b.config \in {"ipq9574", "ipq5332", "ipq5424"}
  /\ b.ports # <<>> /\ b.ports \in
       Seq([phy_id : DOMAIN ConfigOf(b.config), id : 1 .. 6, uniphy_id : Nat, xgmac : BOOLEAN])
  /\ \A p, q \in DOMAIN b.ports : p # q =>
       /\ b.ports[p].id # b.ports[q].id
       /\ b.ports[p].uniphy_id = b.ports[q].uniphy_id =>
            b.ports[p].phy_id = b.ports[q].phy_id /\ b.ports[p].phy_id \in {"QCA8075", "QCA8x8x_PHY"}
  /\ \A p \in DOMAIN b.ports : b.ports[p].phy_id = "QCA8x8x_PHY" =>
       b.ports[p].uniphy_id = 0 /\ b.ports[p].id \in 1 .. 4

PortLinkAssumption ==
  /\ Speeds \subseteq {10, 100, 1000, 2500, 5000, 10000}
  /\ \A b \in Boards : BoardAssumption(b)
  /\ All \notin Nat

Init ==
  /\ board \in Boards
  /\ phase = "off" /\ i = 1 /\ active_port = All
  /\ connected = {} /\ isconfigured = {}
  /\ cur_speed = [p \in Ports |-> 0]
  /\ cur_uniphy_mode = [p \in Ports |-> "PSGMII"]   \* both are 0 in C
  /\ cur_gmac_type = [p \in Ports |-> "GMAC"]
  /\ uniphy = [u \in Uniphys |-> "reset"] /\ channel = [u \in Uniphys |-> [c \in 0 .. 3 |-> 0]]
  /\ mux = [p \in Ports |-> "GMAC"] /\ tx_mac = {}
  /\ xgmac = [p \in Ports |-> {}] /\ gmac = [p \in Ports |-> 0]
  /\ rate = [p \in Ports |-> 0]
  /\ reading = [p \in Ports |-> NotRead] /\ whole = {}

\* ppe_uniphy_mode_set: the serdes is reset, and the wide modes start every
\* channel they write at 10 Gb/s. A mode of -1 sets nothing.
ModeAfter(u, mode) == IF mode = "none" THEN uniphy ELSE [uniphy EXCEPT ![u] = mode]
ChannelAfter(u, mode) ==
  CASE mode = "UQXGMII" -> [channel EXCEPT ![u] = [c \in 0 .. 3 |-> 3]]
    [] mode = "USXGMII" -> [channel EXCEPT ![u][0] = 3]
    [] OTHER -> channel
ModeSet(u, mode) == uniphy' = ModeAfter(u, mode) /\ channel' = ChannelAfter(u, mode)

\* ppe_port_mux_set: one bit holds the type.
MuxSet(p, mac) == mux' = [mux EXCEPT ![p] = IF mac = "GMAC" THEN mac ELSE "XGMAC"]

(* ipq_eth_probe.                                                          *)

Probe ==
  /\ phase = "off"
  /\ phase' = "probe" /\ i' = 1
  /\ UNCHANGED <<board, active_port, driver, hardware, reading, whole>>

Following == /\ i' = i + 1
             /\ phase' = IF i = Len(board.ports) THEN "idle" ELSE phase
             /\ UNCHANGED <<board, active_port, reading, whole>>

NotConnected ==
  /\ phase = "probe" /\ Following
  /\ UNCHANGED <<driver, hardware>>

\* The mode a type of PHY wants before it is configured.
FirstMode ==
  [t \in {"QCA8x8x_PHY", "QCA8x8x_SWITCH", "QCA81xx"} |->
     CASE t = "QCA8x8x_PHY" -> "UQXGMII" [] t = "QCA81xx" -> "USXGMII"
       [] OTHER -> "SGMII_PLUS"]

\* Only the first of the ports of a QCA8x8x sets the serdes.
IsFirst(p) == \A q \in connected : PhyId(q) = "QCA8x8x_PHY" => PhyId(p) # "QCA8x8x_PHY"

Connect ==
  /\ phase = "probe" /\ Following
  /\ connected' = connected \cup {i}
  /\ isconfigured' \in {isconfigured, isconfigured \cup {i}}
  /\ IF PhyId(i) \in DOMAIN FirstMode
     THEN /\ cur_uniphy_mode' = [cur_uniphy_mode EXCEPT ![i] = FirstMode[PhyId(i)]]
          /\ IF IsFirst(i) THEN ModeSet(Uniphy(i), FirstMode[PhyId(i)])
             ELSE UNCHANGED <<uniphy, channel>>
     ELSE UNCHANGED <<cur_uniphy_mode, uniphy, channel>>
  /\ IF PhyId(i) \in {"QCA8x8x_PHY", "QCA81xx"}
     THEN cur_gmac_type' = [cur_gmac_type EXCEPT ![i] = "XGMAC"] /\ MuxSet(i, "XGMAC")
     ELSE UNCHANGED <<cur_gmac_type, mux>>
  /\ UNCHANGED <<cur_speed, tx_mac, xgmac, gmac, rate>>

\* Without any PHY the probe fails, and the next use of the network makes
\* another, the driver's data being new.
ProbeAgain ==
  /\ phase = "idle" /\ isconfigured = {}
  /\ phase' = "off" /\ i' = 1
  /\ connected' = {}
  /\ cur_uniphy_mode' = [p \in Ports |-> "PSGMII"]
  /\ cur_gmac_type' = [p \in Ports |-> "GMAC"]
  /\ UNCHANGED <<board, active_port, isconfigured, cur_speed, hardware, reading, whole>>

(* ipq_eth_start.                                                          *)

Start(a) ==
  /\ phase = "idle" /\ isconfigured # {}
  /\ active_port' = a
  /\ phase' = "start" /\ i' = 1
  /\ UNCHANGED <<board, driver, hardware, reading, whole>>

Done == /\ i' = i + 1
        /\ phase' = IF i = Len(board.ports) THEN "up" ELSE phase
        /\ UNCHANGED <<board, active_port, connected, isconfigured>>

Chosen(p) == p \in connected /\ active_port \in {p, All}

\* A port without a PHY, or one whose PHY does not answer, stays as it is.
Skip ==
  /\ phase = "start" /\ (i \in connected => Chosen(i) /\ PhyId(i) # SFP)
  /\ Done
  /\ UNCHANGED <<cur_speed, cur_uniphy_mode, cur_gmac_type, hardware, reading, whole>>

Leave ==
  /\ phase = "start" /\ i \in connected /\ ~Chosen(i)
  /\ tx_mac' = tx_mac \ {i}
  /\ cur_speed' = [cur_speed EXCEPT ![i] = 0]
  /\ whole' = whole \ {i}
  /\ Done
  /\ UNCHANGED <<cur_uniphy_mode, cur_gmac_type, uniphy, channel, mux, xgmac, gmac, rate, reading>>

\* A link that is down reads as 10 Mb/s.
Read(r) ==
  /\ phase = "start" /\ Chosen(i) /\ (PhyId(i) = SFP \/ i \in isconfigured)
  /\ r.speed \in IF r.link THEN Offered(i) ELSE {10}
  /\ reading' = [reading EXCEPT ![i] = r]
  /\ Done

Unchanged(r) ==
  /\ Read(r) /\ cur_speed[i] = r.speed
  /\ UNCHANGED <<cur_speed, cur_uniphy_mode, cur_gmac_type, hardware, whole>>

\* The part of ipq_eth_port_set_up every outcome has run: the speed is
\* remembered first, and the serdes mode follows if the port's differs.
SetUp(r) ==
  LET mode == Mode(i, r.speed) IN
  /\ Read(r) /\ cur_speed[i] # r.speed
  /\ cur_speed' = [cur_speed EXCEPT ![i] = r.speed]
  /\ cur_uniphy_mode' = [cur_uniphy_mode EXCEPT ![i] = mode]

Serdes(mode) ==
  IF cur_uniphy_mode[i] # mode THEN ModeSet(Uniphy(i), mode) ELSE UNCHANGED <<uniphy, channel>>

\* A clock is missing: none, one or both of the port's clocks have the rate.
Mixed == -2
SetUpFails(r) ==
  /\ SetUp(r)
  /\ Serdes(Mode(i, r.speed))
  /\ rate' = [rate EXCEPT ![i] = Mixed]
  /\ whole' = whole \ {i}
  /\ UNCHANGED <<cur_gmac_type, mux, tx_mac, xgmac, gmac>>

\* Mutant: the MAC is not reset.
MacKeeps(p) == xgmac[p]

\* The reset of the MAC's clock domain brings the speed bits back to zero.
MacReset(p) == {}

\* ppe_xgmac_configuration only ever sets them.
SpeedBits(mode, index) ==
  IF mode \notin Fast \cup {"SGMII_PLUS"} THEN {}
  ELSE CASE index \in 0 .. 2 -> {29, 30} [] index = 4 -> {30} [] index = 5 -> {29} [] OTHER -> {}

\* ppe_uniphy_usxgmii_speed_set, after the mode if that is another one.
SpeedSet(mode, index) ==
  LET u == Uniphy(i)
      begun == IF cur_uniphy_mode[i] # mode THEN ChannelAfter(u, mode) ELSE channel
  IN /\ uniphy' = IF cur_uniphy_mode[i] # mode THEN ModeAfter(u, mode) ELSE uniphy
     /\ channel' = IF mode \in Fast THEN [begun EXCEPT ![u][Channel(i)] = index] ELSE begun

\* The mux is written when the type of MAC changes.
GmacType(mac) ==
  /\ cur_gmac_type' = [cur_gmac_type EXCEPT ![i] = mac]
  /\ IF cur_gmac_type[i] # mac THEN MuxSet(i, mac) ELSE UNCHANGED mux

\* The MAC the mux has chosen takes the speed, and may transmit.
MacSet(mac, mode, index) ==
  /\ tx_mac' = tx_mac \cup {i}
  /\ xgmac' = [xgmac EXCEPT ![i] =
       MacReset(i) \cup IF mac = "XGMAC" THEN SpeedBits(mode, index) ELSE {}]
  /\ gmac' = IF mac = "XGMAC" THEN gmac ELSE [gmac EXCEPT ![i] = index]

\* Both clocks, the reset of the MAC, and ppe_port_speed_set.
SetUpRuns(r) ==
  LET mode == Mode(i, r.speed)
      mac == MacMode(i, r.speed)
      index == MacSpeed(r.speed, board.ports[i].xgmac)
  IN /\ SetUp(r)
     /\ SpeedSet(mode, index) /\ GmacType(mac) /\ MacSet(mac, mode, index)
     /\ rate' = [rate EXCEPT ![i] = ClkRate(i, r.speed)]
     /\ whole' = whole \cup {i}

\* ipq_eth_stop shuts the PHYs down and touches nothing of this; the next
\* start reads every link again.
Stop ==
  /\ phase = "up" /\ phase' = "idle"
  /\ active_port' = All /\ i' = 1
  /\ reading' = [p \in Ports |-> NotRead]
  /\ UNCHANGED <<board, driver, hardware, whole>>

Next ==
  \/ Probe \/ NotConnected \/ Connect \/ ProbeAgain \/ Stop
  \/ \E a \in Ports \cup {All} : Start(a)
  \/ Skip \/ Leave
  \/ \E r \in [link : BOOLEAN, speed : Speeds] : Unchanged(r) \/ SetUpRuns(r) \/ SetUpFails(r)

Spec == Init /\ [][Next]_vars

TypeOK ==
  /\ board \in Boards
  /\ phase \in {"off", "probe", "idle", "start", "up"} /\ i \in 1 .. Len(board.ports) + 1
  /\ active_port \in Ports \cup {All}
  /\ isconfigured \subseteq connected /\ connected \subseteq Ports
  /\ cur_speed \in [Ports -> Speeds \cup {0}]
  /\ DOMAIN cur_uniphy_mode = Ports /\ DOMAIN cur_gmac_type = Ports
  /\ DOMAIN uniphy = Uniphys /\ channel \in [Uniphys -> [0 .. 3 -> 0 .. 5]]
  /\ mux \in [Ports -> {"GMAC", "XGMAC"}] /\ tx_mac \subseteq Ports
  /\ xgmac \in [Ports -> SUBSET {29, 30}] /\ gmac \in [Ports -> 0 .. 5]
  /\ DOMAIN rate = Ports /\ DOMAIN reading = Ports
  /\ whole \subseteq Ports

\* What a port whose link is up at speed s needs, whatever came before it on
\* this port or on another of the same serdes. PSGMII is what the serdes has
\* from its reset: the mode counts as set before anybody sets it.
RunsAt(p, s) ==
  LET index == MacSpeed(s, board.ports[p].xgmac)
      mode == Mode(p, s)
      mac == MacMode(p, s)
  IN /\ p \in tx_mac /\ mux[p] = mac
     /\ uniphy[Uniphy(p)] \in {mode} \cup (IF mode = "PSGMII" THEN {"reset"} ELSE {})
     /\ mode \in Fast => channel[Uniphy(p)][Channel(p)] = index
     /\ IF mac = "XGMAC" THEN xgmac[p] = SpeedBits(mode, index) ELSE gmac[p] = index
     /\ rate[p] = ClkRate(p, s)

\* When ipq_eth_start has returned, a port read as up runs at the speed of
\* its link in serdes, MAC, mux and clocks, unless its last set-up missed a
\* clock (which nothing tries again); one that is not active sends nothing.
PortsFollowLinks ==
  phase = "up" =>
    \A p \in Ports :
      /\ reading[p] # NotRead /\ reading[p].link /\ p \in whole => RunsAt(p, reading[p].speed)
      /\ p \in connected /\ ~Chosen(p) => p \notin tx_mac
=============================================================================
