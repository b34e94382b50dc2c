------------------------------ MODULE MCWaiting ------------------------------
(***************************************************************************)
(* Small instances of what tasks wait for: a machine whose tasks read the  *)
(* keyboard (Console), one whose tasks ask the network (Network), or one   *)
(* that fetches a file (Tftp).                                             *)
(***************************************************************************)
EXTENDS Waiting, TLC

VARIABLE machine       \* which of the three it is

(* The boot alone, a query, a call of getMACFromIp, two queries, and a query and a call. *)
MCJobs ==
  LET Job(a, b) == [t \in Readers |-> IF t = CHOOSE u \in Readers : TRUE THEN a ELSE b]
  IN {Job("dhcp", "none"), Job("dns", "none"), Job("mac", "none"), Job("dns", "dns"), Job("dns", "mac")}

ASSUME FetchConstants == F!ConstantsAssumption
ASSUME NetworkConstants == N!ConstantsAssumption

NoConsole ==
  /\ last_pressed_key = 0 /\ released = 0 /\ newline = {} /\ emptymap = <<>> /\ wait = <<>>
  /\ tmp = <<>> /\ buffer = [t \in Readers |-> NoBuffer] /\ line = [t \in Readers |-> <<>>]
  /\ calm = {} /\ shared = {}
  /\ pc = [t \in Readers |-> "idle"]

NoNetwork ==
  /\ job = [t \in Readers |-> "none"] /\ slots = <<>> /\ number = <<>> /\ unread = {} /\ head = 0 /\ tail = 0
  /\ air = {} /\ arrived = 0 /\ strays = 0 /\ at = [t \in Readers |-> "start"] /\ pointer = <<>> /\ took = <<>>
  /\ dnstid = 0 /\ id = <<>> /\ leased = None /\ answer = <<>> /\ late = <<>> /\ gone = 0
  /\ stolen = 0

NoFetch ==
  /\ size = 0 /\ checksum = 0 /\ sent = <<>> /\ acked = <<>> /\ missed = <<>> /\ network = <<>> /\ step = "ask" /\ fetch = "size"
  /\ peer = "size" /\ foundsize = 0 /\ expected = 0 /\ loaded = <<>> /\ result = <<>>
  /\ lost = 0 /\ doubled = 0

MCInit ==
  \/ machine = "console" /\ Init /\ NoNetwork /\ NoFetch
  \/ machine = "network" /\ N!Init /\ NoConsole /\ NoFetch
  \/ machine = "tftp" /\ F!Init /\ NoConsole /\ NoNetwork

OnConsole == machine = "console" /\ UNCHANGED <<machine, networkVars, fetchVars>>
OnNetwork == machine = "network" /\ UNCHANGED <<machine, vars, fetchVars>>
Fetching == machine = "tftp" /\ UNCHANGED <<machine, vars, networkVars>>

(* Two queries are disturbed once. *)
Queries == \A t \in Readers : job[t] = "dns"

MCNext ==
  \/ OnConsole /\ Next
  \/ OnNetwork /\ N!Next /\ (Queries => strays' <= 1)
  \/ Fetching /\ F!Next

MCvars == <<machine, vars, networkVars, fetchVars>>

(* The fairness of the three modules. *)
MCFairness ==
  /\ \A t \in Readers :
       /\ WF_MCvars(OnConsole /\ Reads(t))
       /\ WF_MCvars(OnNetwork /\ N!TaskStep(t))
  /\ WF_MCvars(OnNetwork /\ N!Deliver)
  /\ WF_MCvars(Fetching /\ F!Client)
  /\ \A f \in F!Fetches :
       /\ WF_MCvars(Fetching /\ F!SendNext(f))
       /\ SF_MCvars(Fetching /\ missed[f] = 1 /\ F!SendAgain(f) /\ missed'[f] = 0)

MCSpec == MCInit /\ [][MCNext]_MCvars /\ MCFairness

(* Who asks the network is answered (see AnswersCome of Network), and a fetch returns (see *)
(* ReadEnds of Tftp).                                                                      *)
NetworkEnds ==
  /\ N!AnswersCome
  /\ machine = "tftp" => F!ReadEnds
=============================================================================
