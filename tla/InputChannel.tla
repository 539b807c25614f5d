---------------------------- MODULE InputChannel ----------------------------
(* The data channel "input-events" of one WebRTC session, and what goes over
   it: permissions to the page that watches, requests to be told them and input
   events to the host.  Messages keep their order and arrive while the link is
   not down.  Closing a peer connection drops what is on the way. *)
EXTENDS Naturals, Sequences

CONSTANTS Inputs,   \* features a viewer may use: "keyboard", "mouse"
          Media,    \* features the host sends: "audio", "video"
          MaxQueue  \* how many messages may be on the way to one end

ASSUME InputAssumption == Inputs \cap Media = {}

VARIABLES link,    \* "none", "setup", "up", "down"
          hostEnd, \* the channel in inputChannelsRef: "none", "connecting", "open"
          pageEnd, \* the channel in inputChannelRef
          toPage,  \* permissions on the way
          toHost   \* "sync" and features on the way

channelVars == <<link, hostEnd, pageEnd, toPage, toHost>>

Features == Inputs \cup Media
Grants == [Features -> BOOLEAN]
DEFAULT_REMOTE_INPUT_PERMISSIONS == [f \in Features |-> f \in Media]
Sync == "sync"

ChannelTypeOK ==
    /\ link \in {"none", "setup", "up", "down"}
    /\ {hostEnd, pageEnd} \subseteq {"none", "connecting", "open"}
    /\ toPage \in Seq(Grants)
    /\ toHost \in Seq(Inputs \cup {Sync})

ChannelInit ==
    /\ link = "none" /\ hostEnd = "none" /\ pageEnd = "none"
    /\ toPage = <<>> /\ toHost = <<>>

Carries == link \in {"setup", "up"}
SendPage(p) == IF hostEnd = "open" /\ link # "none" THEN Append(toPage, p) ELSE toPage
SendHost(m) == IF pageEnd = "open" /\ link # "none" THEN Append(toHost, m) ELSE toHost
=============================================================================
