---------------------------- MODULE ReconnectPlan ----------------------------
(***************************************************************************)
(* Which way a saved server is connected again, without asking the user:   *)
(* compute_reconnect_plan_with_slingshot and its helpers (reconnect.rs).   *)
(* The answer decides which of the connects of SessionLifecycle a pass of  *)
(* reconnect_saved_servers, or a reconnect_server, begins.                 *)
(*                                                                         *)
(* A record is reduced to what the decision looks at.  The credentials are *)
(* there or not; a port of 0 is no port.                                   *)
(***************************************************************************)
EXTENDS Naturals, Sequences

CONSTANTS
  Ports,     \* port numbers
  PortLists  \* what codex_ports may be

ASSUME PortsAssumption == Ports \subseteq Nat /\ PortLists \subseteq Seq(Ports)

\* paired: node, token and agent of an Alleycat pairing are known.
\* url: a marker of a Slingshot environment, one that cannot be read, another URL.
\* mode: preferred_connection_mode; forwarding: ssh_port_forwarding_enabled.
Records ==
  [paired : BOOLEAN, bridge : BOOLEAN, url : {"none", "slingshot", "unreadable", "other"},
   mode : {"none", "ssh", "directCodex"}, forwarding : BOOLEAN,
   codex : BOOLEAN, port : Ports, codex_ports : PortLists, preferred : Ports,
   ssh_port : BOOLEAN, source : {"local", "ssh", "manual"}]

\* The SSH and the Slingshot credential of the server, and the feature switch.
Means == [ssh : BOOLEAN, slingshot : BOOLEAN, multi : BOOLEAN]

\* resolved_preferred_connection_mode
Mode(r) == IF r.mode = "none" /\ r.forwarding THEN "ssh" ELSE r.mode

\* available_direct_codex_ports
OwnPort(r) == r.codex /\ r.port > 0
Listed(r) == SelectSeq(r.codex_ports, LAMBDA p : p > 0)
DirectPorts(r) ==
  {p \in Ports \ {0} : \/ OwnPort(r) /\ p = r.port
                       \/ \E i \in DOMAIN r.codex_ports : r.codex_ports[i] = p}
FirstPort(r) == IF OwnPort(r) THEN r.port ELSE Head(Listed(r))

\* can_connect_via_ssh; resolved_ssh_port is 22 where nothing else is known.
CanSsh(r) ==
  r.url = "none" /\ (r.ssh_port \/ r.source = "ssh" \/ ~r.codex \/ r.mode = "ssh" \/ r.forwarding)

\* requires_connection_choice
NeedsChoice(r) ==
  /\ r.url = "none" /\ Mode(r) = "none"
  /\ \/ \E p \in DirectPorts(r), q \in DirectPorts(r) : p # q
     \/ DirectPorts(r) # {} /\ CanSsh(r)

\* direct_codex_port, 0 for none
DirectPort(r) ==
  IF r.url # "none" \/ Mode(r) = "ssh" THEN 0
  ELSE IF Mode(r) = "directCodex" /\ r.preferred \in DirectPorts(r) THEN r.preferred
  ELSE IF NeedsChoice(r) \/ DirectPorts(r) = {} THEN 0
  ELSE FirstPort(r)

By(way) == [by |-> way]
Direct(p) == [by |-> "direct", port |-> p]
Given(credential, way) == IF credential THEN By(way) ELSE By("none")

\* The legacy fallback is for records without a mode.
MayFallBack(r) == Mode(r) = "none"

\* Without a URL: SSH if it was chosen, a port, SSH, the device itself.
PlanWithoutUrl(r, m) ==
  IF Mode(r) = "ssh" THEN Given(m.ssh, "ssh")
  ELSE IF DirectPort(r) # 0 THEN Direct(DirectPort(r))
  ELSE IF MayFallBack(r) /\ m.ssh THEN By("ssh")
  ELSE By(IF r.source = "local" THEN "local" ELSE "none")

\* compute_reconnect_plan_with_slingshot, for a server that is not connected.
\* Bridges never fall through to plain SSH.
PlanOf(r, m) ==
  IF m.multi /\ r.paired THEN By("alleycat")
  ELSE IF m.multi /\ r.bridge THEN Given(m.ssh, "bridges")
  ELSE IF r.url = "none" THEN PlanWithoutUrl(r, m)
  ELSE IF r.url = "slingshot" THEN Given(m.slingshot, "slingshot")
  ELSE By(IF r.url = "other" THEN "url" ELSE "none")

-----------------------------------------------------------------------------

WithoutCredentials(m) == [ssh |-> FALSE, slingshot |-> FALSE, multi |-> m.multi]

\* However the fields of a record contradict each other, nothing is decided for the
\* user: a chosen mode is kept, a port is not picked where a choice is due, and a
\* credential makes a way possible where there was none but never changes the way.
\* (The platforms connect the device itself without a plan.)
PlanIsTheUsers ==
  \A r \in Records, m \in Means :
    LET plan == PlanOf(r, m)
        bare == PlanOf(r, WithoutCredentials(m))
    IN
    /\ plan.by = "ssh" => r.mode # "directCodex"
    /\ plan.by = "direct" => Mode(r) # "ssh" /\ ~NeedsChoice(r)
    /\ bare.by \notin {"none", "local"} => plan = bare
=============================================================================
