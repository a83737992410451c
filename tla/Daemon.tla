-------------------------------- MODULE Daemon --------------------------------
(***************************************************************************)
(* The life of the daemon: `dmr serve` and main.go, server.Run, the wiring *)
(* of routing.NewService, and the certificates of pkg/tls.  The daemon may *)
(* be killed at any step and started again over the files it left; its     *)
(* servers may fail; a signal may come at any time.                        *)
(***************************************************************************)
EXTENDS Naturals, Sequences

CONSTANTS MaxKills,  \* kills followed
          MaxGen     \* generations of certificates followed

DaemonAssumption == MaxKills \in Nat /\ MaxGen \in Nat

VARIABLES
  at,         \* where Run is
  listens,    \* the servers that accept: "tcp", "unix", "tls"
  flag, env,  \* what --socket or --port and the environment ask for
  failed,     \* the servers that failed, as their channels hold it
  signalled,  \* the context of Run is done
  scheduler,  \* "none", "running", "stopped"
  steps,      \* writes of GenerateCertificates done so far
  gen,        \* the last generation generated
  old,        \* generations within 30 days of their expiry
  files,      \* ca.crt, ca.key, server.crt, server.key: [gen, whole], gen 0 for missing
  exit,       \* how the last Run ended: "", "nil", "error"
  kills

dmVars == <<at, listens, flag, env, failed, signalled, scheduler, steps, gen, old, files, exit, kills>>
Servers == {"tcp", "unix", "tls"}
Flags == {"none", "socket", "port"}
Written == <<"ca.crt", "ca.key", "server.crt", "server.key">>
FileNames == {Written[i] : i \in 1..4}
DMTypeOK ==
  /\ at \in {"off", "wiring", "listen", "tls", "generate", "load", "schedule", "select", "close", "wait"}
  /\ listens \subseteq Servers /\ failed \subseteq Servers
  /\ flag \in Flags /\ env \subseteq {"port", "socket"}
  /\ scheduler \in {"none", "running", "stopped"}
  /\ steps \in 0..8 /\ gen \in 0..MaxGen /\ old \subseteq 1..MaxGen
  /\ \A f \in FileNames : files[f].gen \in 0..gen /\ files[f].whole \in BOOLEAN
  /\ (at # "off" => exit = "") /\ kills \in 0..MaxKills

DMInit ==
  /\ at = "off" /\ listens = {} /\ flag = "none" /\ env = {} /\ failed = {} /\ signalled = FALSE
  /\ scheduler = "none" /\ steps = 0 /\ gen = 0 /\ old = {}
  /\ files = [f \in FileNames |-> [gen |-> 0, whole |-> FALSE]] /\ exit = "" /\ kills = 0

certVars == <<steps, gen, old, files, kills>>
runVars == <<failed, signalled, scheduler>>

Start ==
  /\ at = "off" /\ at' = "wiring" /\ flag' \in Flags /\ env' \in SUBSET {"port", "socket"}
  /\ listens' = {} /\ failed' = {} /\ signalled' = FALSE /\ scheduler' = "none"
  /\ exit' = "" /\ steps' = 0 /\ UNCHANGED <<gen, old, files, kills>>

(* Run returns, or a fatal error of a backend ends the process: with it go
   its listeners and its goroutines, not the processes of the runners. *)
Leave(how) ==
  /\ at' = "off" /\ exit' = how /\ UNCHANGED <<listens, flag, env, certVars, runVars>>
Goto(there) == at' = there /\ UNCHANGED <<flag, env, exit>>
Wire ==
  /\ at = "wiring"
  /\ \/ Goto("listen") /\ UNCHANGED <<listens, certVars, runVars>>
     \/ Leave("error")

-----------------------------------------------------------------------------
(* applyServeEnv gives the flags precedence; Run prefers a port. *)
EnvAsIs == env \cup (IF flag = "none" THEN {} ELSE {flag})
ServeEnv ==
  IF flag # "none" THEN {flag} ELSE IF env = {} THEN {"port"} ELSE env
Listen ==
  /\ at = "listen"
  /\ \/ /\ listens' = {IF "port" \in ServeEnv THEN "tcp" ELSE "unix"}
        /\ Goto("tls") /\ UNCHANGED <<certVars, runVars>>
     \/ "port" \notin ServeEnv /\ Leave("error")   \* the socket cannot be removed or made

(* EnsureCertificates, when TLS is enabled and no pair is given. *)
Usable ==
  /\ \A f \in FileNames : files[f].gen # 0
  /\ files["server.crt"].whole /\ files["server.crt"].gen \notin old
EnsureCertificates ==
  /\ at = "tls"
  /\ \/ Goto("schedule") /\ UNCHANGED gen
     \/ Usable /\ Goto("load") /\ UNCHANGED gen
     \/ ~Usable /\ gen < MaxGen /\ gen' = gen + 1 /\ Goto("generate")
  /\ UNCHANGED <<listens, steps, old, files, kills, runVars>>
(* Each file is truncated and then written; a kill may fall between. *)
ServerFirst == <<"server.crt", "server.key", "ca.crt", "ca.key">>
WriteOrder == Written
WriteCertificate ==
  /\ at = "generate" /\ steps < 8 /\ steps' = steps + 1
  /\ files' = [files EXCEPT ![WriteOrder[steps \div 2 + 1]] = [gen |-> gen, whole |-> steps % 2 = 1]]
  /\ IF steps' = 8 THEN Goto("load") ELSE Goto("generate")
  /\ UNCHANGED <<listens, gen, old, kills, runVars>>
CannotWrite == at = "generate" /\ Leave("error")
(* LoadTLSConfig refuses a certificate and a key that do not belong together. *)
Pair == files["server.crt"].whole /\ files["server.key"].whole /\ files["server.crt"].gen = files["server.key"].gen
LoadTLSConfig ==
  /\ at = "load"
  /\ IF Pair THEN listens' = listens \cup {"tls"} /\ Goto("schedule") /\ UNCHANGED <<certVars, runVars>>
     ELSE Leave("error")

-----------------------------------------------------------------------------
(* The scheduler, and the select of Run. *)
StartScheduler ==
  /\ at = "schedule" /\ scheduler' = "running" /\ at' = "select"
  /\ flag' = "none" /\ env' = {}   \* not read again
  /\ UNCHANGED <<exit, listens, failed, signalled, certVars>>
StopScheduler ==
  /\ scheduler = "running" /\ at # "off" /\ signalled /\ scheduler' = "stopped"
  /\ UNCHANGED <<at, flag, env, exit, listens, failed, signalled, certVars>>
Signal ==
  /\ at # "off" /\ ~signalled /\ signalled' = TRUE
  /\ UNCHANGED <<at, flag, env, exit, listens, failed, scheduler, certVars>>
ServerFails(s) ==
  /\ at # "off" /\ s \in listens /\ listens' = listens \ {s} /\ failed' = failed \cup {s}
  /\ UNCHANGED <<at, flag, env, exit, signalled, scheduler, certVars>>

(* Any ready case may be taken.  A failed server is only logged: Run returns
   nil, and neither the other server nor the scheduler is told. *)
SelectError == at = "select" /\ failed # {} /\ Leave("nil")
SelectDone ==
  /\ at = "select" /\ signalled /\ Goto("close") /\ UNCHANGED <<listens, certVars, runVars>>
Close ==
  /\ at = "close" /\ listens' = {} /\ Goto("wait") /\ UNCHANGED <<certVars, runVars>>
NoWait == TRUE
SchedulerEnded == scheduler = "stopped"
Wait ==
  /\ at = "wait" /\ SchedulerEnded /\ Leave("nil")

Kill ==
  /\ at # "off" /\ kills < MaxKills /\ kills' = kills + 1 /\ at' = "off" /\ exit' = "killed"
  /\ UNCHANGED <<listens, flag, env, runVars, steps, gen, old, files>>
TimePasses ==
  /\ gen \notin old \cup {0} /\ at = "off" /\ old' = old \cup {gen}
  /\ UNCHANGED <<at, listens, flag, env, exit, runVars, steps, gen, files, kills>>

DMNext ==
  \/ Start \/ Wire \/ Listen \/ EnsureCertificates \/ WriteCertificate \/ CannotWrite \/ LoadTLSConfig
  \/ StartScheduler \/ StopScheduler \/ Signal \/ \E s \in Servers : ServerFails(s)
  \/ SelectError \/ SelectDone \/ Close \/ Wait \/ Kill \/ TimePasses
DMSpec == DMInit /\ [][DMNext]_dmVars

-----------------------------------------------------------------------------
(* When no server failed, a daemon that ended without an error has closed its
   servers and waited for its scheduler (the closing part of server.Run).  It
   says nothing of the runners' processes: a load that was under way can leave
   one behind the scheduler's end (Loader's StoppedMeansEvicted). *)
StoppedInFull ==
  exit = "nil" /\ failed = {} => listens = {} /\ scheduler = "stopped"

(* What the TLS server presents was signed by the authority of the ca.crt
   that clients trust (LoadClientTLSConfig), whatever kills and expiries came
   before. *)
ClientsCanVerify ==
  at # "off" /\ "tls" \in listens => files["ca.crt"].whole /\ files["ca.crt"].gen = files["server.crt"].gen

(* An explicit flag decides where the daemon listens, whatever the
   environment says (applyServeEnv). *)
FlagDecides ==
  at \in {"tls", "generate", "load"} /\ failed = {} =>
    /\ flag = "socket" => "unix" \in listens
    /\ flag = "port" => "tcp" \in listens
=============================================================================
