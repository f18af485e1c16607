----------------------------- MODULE MCEdmaRx ------------------------------
(* The rings of MCEdmaRing; or, in place of the frames, what comes first:   *)
(* ipq_eth_probe and any number of ipq_eth_start, on four boards with two   *)
(* ports each, of which one shares a serdes and all change between links    *)
(* of 1 and of 2.5 Gb/s, up and down; or the chip most of these PHYs are    *)
(* in, as PHYs, as a switch and with a bypass, at all its speeds.           *)
EXTENDS MCEdmaRing

CONSTANTS
  Boards, Speeds, All, NotRead,   \* of PortLink
  Phys, LinkEn, PhySpeeds, Unknown, NeverRead   \* of Qca8x8x

VARIABLES
  task,     \* "frames", "links" or "chip"
  board, phase, port, active_port, connected, isconfigured, cur_speed, cur_uniphy_mode,
  cur_gmac_type, uniphy, channel, mux, tx_mac, xgmac, gmac, rate, reading, whole,
  dt, chip, dev_mode, next_port, any_up, phydev_link, last_read

link_vars == <<board, phase, port, active_port, connected, isconfigured, cur_speed,
               cur_uniphy_mode, cur_gmac_type, uniphy, channel, mux, tx_mac, xgmac, gmac,
               rate, reading, whole>>
chip_vars == <<dt, chip, dev_mode, next_port, any_up, phydev_link, last_read>>

MCPort(t, n, u) == [phy_id |-> t, id |-> n, uniphy_id |-> u, xgmac |-> TRUE]
MCBoard(c, a, b) == [config |-> c, ports |-> <<a, b>>]
MCBoards ==
  {MCBoard("ipq9574", MCPort("QCA8x8x_PHY", 1, 0), MCPort("QCA8x8x_PHY", 2, 0)),
   MCBoard("ipq9574", MCPort("QCA8075", 1, 0), MCPort("AQ", 5, 1)),
   MCBoard("ipq5332", MCPort("QCA8081", 1, 0), MCPort("QCA8x8x_SWITCH", 2, 1)),
   MCBoard("ipq5424", MCPort("QCA81xx", 1, 0), MCPort("SFP10G", 2, 1))}

Link == INSTANCE PortLink WITH i <- port

Qca == INSTANCE Qca8x8x WITH Speeds <- PhySpeeds

ASSUME LinkIs == Link!PortLinkAssumption
ASSUME QcaIs == Qca!Qca8x8xAssumption

\* One board is enough where the task is another.
MCInit ==
  /\ Init /\ Link!Init /\ Qca!Init
  /\ task \in {"frames", "links", "chip"}
  /\ task # "links" => board.config = "ipq5424"
  /\ task # "chip" => dt = "phy"

MCNext ==
  /\ UNCHANGED task
  /\ \/ task = "frames" /\ Next /\ UNCHANGED <<link_vars, chip_vars>>
     \/ task = "links" /\ Link!Next /\ UNCHANGED <<vars, chip_vars>>
     \/ task = "chip" /\ Qca!Next /\ UNCHANGED <<vars, link_vars>>

MCFairSpec ==
  /\ MCInit /\ [][MCNext]_<<vars, link_vars, chip_vars, task>>
  /\ WF_vars(task = "frames" /\ RecvBody)
  /\ WF_vars(task = "frames" /\ SendBody)
  /\ WF_vars(task = "frames" /\ HwTransmit)
  /\ SF_vars(task = "frames" /\ RecvPoll)
  /\ SF_vars(task = "frames" /\ Process)

\* The ports run at the speeds of their links (PortLink).
PortsFollowLinks == Link!PortsFollowLinks

\* The clocks of the PHYs' chip fit the links it last read (Qca8x8x).
ClocksFollowLinks == Qca!ClocksFollowLinks
=============================================================================
