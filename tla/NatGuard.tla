------------------------------ MODULE NatGuard ------------------------------
(***************************************************************************)
(* The host state that full-tunnel mode changes (src/src/nat.rs): three    *)
(* iptables rules and net.ipv4.ip_forward, over any number of runs of the  *)
(* server from start-up (src/src/server.rs) to its end, each of which may  *)
(* crash between any two commands.                                         *)
(*                                                                         *)
(* A rule names the WAN interface, which is configured or found in         *)
(* /proc/net/route, so it may be another one for the next run.             *)
(*                                                                         *)
(* iptables is external: -A appends a copy of a rule, -D removes one copy  *)
(* and fails when there is none.  Either may fail for other reasons, such  *)
(* as a lock held by another iptables: enable_masquerade ignores a failed  *)
(* -D and ends at a failed -A, Drop logs a failed -D.  /proc may be        *)
(* unreadable or read-only.  Nothing else on the host changes these rules  *)
(* or ip_forward meanwhile.                                                *)
(***************************************************************************)
EXTENDS Integers, Sequences

CONSTANTS
    Wan,         \* WAN interfaces
    MaxMissed,   \* bound: deletions of a rule that fail although it is there
    None

ASSUME NatAssumption ==
    /\ MaxMissed \in Nat
    /\ None \notin BOOLEAN

Masquerade == "masquerade"
ForwardOut == "tun_to_wan"
ForwardIn == "wan_to_tun"
Kind == {Masquerade, ForwardOut, ForwardIn}
Rule == Kind \X Wan

\* The order in which enable_masquerade names the rules, ...
InstallOrder == <<Masquerade, ForwardOut, ForwardIn>>

\* Mutant of DropOrder: the rule for answers is forgotten.
DropOrderShort == <<ForwardOut, Masquerade>>

\* ... and Drop, in reverse.
DropOrder == <<ForwardIn, ForwardOut, Masquerade>>

VARIABLES
    rules,        \* copies of each rule in the kernel's tables
    wan,          \* the WAN interface of the current or last run
    ip_forward,   \* net.ipv4.ip_forward
    pc,           \* where the process is; "down" when there is none
    todo,         \* rules the current phase has still to deal with
    prior,        \* prior_ip_forward; None when it could not be read
    missed,       \* history: deletions by enable_masquerade that failed
                  \* although there was a copy of the rule
    original,     \* history: ip_forward before the first run
    found,        \* history: ip_forward when the process started
    left_on,      \* history: some run turned ip_forward on and did not undo it
    stopped,      \* history: the last process came to the end of Drop
    warned        \* history: ... and one of its deletions failed

host == <<rules, ip_forward>>
ended == <<stopped, warned>>
vars == <<host, wan, pc, todo, prior, missed, original, found, left_on, ended>>

TypeOK ==
    /\ rules \in [Rule -> Nat]
    /\ ip_forward \in BOOLEAN
    /\ wan \in Wan
    /\ pc \in {"down", "purge", "install", "starting", "binding", "up", "drop"}
    /\ todo \in Seq(Kind) /\ Len(todo) <= 3
    /\ prior \in BOOLEAN \cup {None}
    /\ missed \in [Rule -> 0 .. MaxMissed]
    /\ original \in BOOLEAN /\ found \in BOOLEAN /\ left_on \in BOOLEAN
    /\ stopped \in BOOLEAN /\ warned \in BOOLEAN

\* No run has left anything behind yet.
Init ==
    /\ rules = [r \in Rule |-> 0]
    /\ ip_forward \in BOOLEAN
    /\ wan \in Wan
    /\ pc = "down"
    /\ todo = <<>>
    /\ prior = None
    /\ missed = [r \in Rule |-> 0]
    /\ original = ip_forward /\ found = ip_forward
    /\ left_on = FALSE
    /\ stopped = FALSE /\ warned = FALSE

\* iptables -A and -D, for the interface of this run.
Copies(k) == rules[<<k, wan>>]
Add(k) == [rules EXCEPT ![<<k, wan>>] = @ + 1]
Delete(k) == [rules EXCEPT ![<<k, wan>>] = IF @ = 0 THEN 0 ELSE @ - 1]

Down == pc' = "down" /\ todo' = <<>> /\ prior' = None

\* The process ends with ip_forward on, whatever it found.
LeaveOn == left_on' = (left_on \/ ~found)

\* Mutant of EnableForwarding: ip_forward is read after it was written.
EnableForwardingReadsLate ==
    /\ pc = "down"
    /\ wan' \in Wan
    /\ found' = ip_forward
    /\ stopped' = FALSE /\ warned' = FALSE
    /\ prior' \in {TRUE, None}
    /\ ip_forward' = TRUE
    /\ pc' = "purge"
    /\ todo' = InstallOrder
    /\ UNCHANGED <<rules, missed, original, left_on>>

\* VpnServer::new up to the first rule.  Whatever fails before enable_masquerade
\* (the socket, certificates, static keys, pools, the WAN interface) has changed
\* nothing.  Then ip_forward is read and, unless it is known to be on, written.
\* A failed write ends the process.
EnableForwarding ==
    /\ pc = "down"
    /\ wan' \in Wan
    /\ found' = ip_forward
    /\ stopped' = FALSE /\ warned' = FALSE
    /\ \E read \in {ip_forward, None} :
          \/ /\ prior' = read
             /\ ip_forward' = TRUE
             /\ pc' = "purge"
             /\ todo' = InstallOrder
          \/ /\ read # TRUE
             /\ Down
             /\ UNCHANGED ip_forward
    /\ UNCHANGED <<rules, missed, original, left_on>>

\* Mutant of Purge: the rules of a previous run are left alone.
PurgeNothing ==
    /\ pc = "purge"
    /\ todo' = IF Len(todo) = 1 THEN InstallOrder ELSE Tail(todo)
    /\ pc' = IF Len(todo) = 1 THEN "install" ELSE "purge"
    /\ UNCHANGED <<host, wan, prior, missed, original, found, left_on, ended>>

\* Rules of a previous run are deleted, one copy each.  The result is thrown
\* away, so a deletion that failed with the rule in place is passed over just
\* like one that failed for want of the rule.
Purge ==
    /\ pc = "purge"
    /\ LET r == <<Head(todo), wan>>
       IN  \/ rules' = Delete(Head(todo)) /\ UNCHANGED missed
          \/ /\ rules[r] > 0
             /\ missed[r] < MaxMissed
             /\ missed' = [missed EXCEPT ![r] = @ + 1]
             /\ UNCHANGED rules
    /\ todo' = IF Len(todo) = 1 THEN InstallOrder ELSE Tail(todo)
    /\ pc' = IF Len(todo) = 1 THEN "install" ELSE "purge"
    /\ UNCHANGED <<ip_forward, wan, prior, original, found, left_on, ended>>

\* Mutant of Install: a failure is passed over like one of Purge's.
InstallIgnoresErrors ==
    /\ pc = "install"
    /\ todo' = Tail(todo)
    /\ pc' = IF Len(todo) = 1 THEN "starting" ELSE "install"
    /\ \/ rules' = Add(Head(todo))
       \/ UNCHANGED rules
    /\ UNCHANGED <<ip_forward, wan, prior, missed, original, found, left_on, ended>>

\* The rules are appended.  The first failure ends the process; there is no
\* guard yet, so nothing is undone.
Install ==
    /\ pc = "install"
    /\ \/ /\ rules' = Add(Head(todo))
          /\ todo' = Tail(todo)
          /\ pc' = IF Len(todo) = 1 THEN "starting" ELSE "install"
          /\ UNCHANGED <<prior, left_on>>
       \/ Down /\ LeaveOn /\ UNCHANGED rules
    /\ UNCHANGED <<ip_forward, wan, missed, original, found, ended>>

\* The guard is dropped: from here DropRule and Restore go on.
BeginDrop == pc' = "drop" /\ todo' = DropOrder

\* run() begins with the TUN device and its IPv6 address.  Either may fail;
\* run() returns then and drops the server with its guard.
CreateTun ==
    /\ pc = "starting"
    /\ \/ pc' = "binding" /\ UNCHANGED todo
       \/ BeginDrop
    /\ UNCHANGED <<host, wan, prior, missed, original, found, left_on, ended>>

\* The TCP listener, if there is to be one, comes last before the receive loop.
BindTcp ==
    /\ pc = "binding"
    /\ \/ pc' = "up" /\ UNCHANGED todo
       \/ BeginDrop
    /\ UNCHANGED <<host, wan, prior, missed, original, found, left_on, ended>>

\* Ctrl-C: run() returns and the guard is dropped.
Stop ==
    /\ pc = "up"
    /\ BeginDrop
    /\ UNCHANGED <<host, wan, prior, missed, original, found, left_on, ended>>

DropRule ==
    /\ pc = "drop"
    /\ todo # <<>>
    /\ todo' = Tail(todo)
    /\ \/ rules' = Delete(Head(todo)) /\ UNCHANGED warned
       \/ warned' = TRUE /\ UNCHANGED rules
    /\ UNCHANGED <<ip_forward, wan, pc, prior, missed, original, found, left_on, stopped>>

\* Mutant of Restore: the setting is written back although none was read.
RestoreUnread ==
    /\ pc = "drop"
    /\ todo = <<>>
    /\ \/ ip_forward' = prior /\ UNCHANGED left_on
       \/ LeaveOn /\ UNCHANGED ip_forward
    /\ stopped' = TRUE
    /\ Down
    /\ UNCHANGED <<rules, wan, missed, original, found, warned>>

\* ip_forward goes back to the value read, if one was; a failed write is
\* ignored.
Restore ==
    /\ pc = "drop"
    /\ todo = <<>>
    /\ \/ prior # None /\ ip_forward' = prior /\ UNCHANGED left_on
       \/ LeaveOn /\ UNCHANGED ip_forward
    /\ stopped' = TRUE
    /\ Down
    /\ UNCHANGED <<rules, wan, missed, original, found, warned>>

\* SIGKILL: no Drop runs, and the kernel keeps what it has.
Crash ==
    /\ pc # "down"
    /\ Down
    /\ LeaveOn
    /\ UNCHANGED <<host, wan, missed, original, found, ended>>

Next ==
    \/ EnableForwarding \/ Purge \/ Install \/ CreateTun \/ BindTcp \/ Stop
    \/ DropRule \/ Restore \/ Crash

Spec == Init /\ [][Next]_vars

-----------------------------------------------------------------------------
\* Kills, failed starts and failed clean-ups never double a rule by themselves:
\* every copy beyond the first stands for a deletion of enable_masquerade that
\* failed with the rule in place, and whose result the code throws away.
CopiesAccounted == \A r \in Rule : rules[r] <= 1 + missed[r]

\* A server that is up, or past its NAT set-up, has every rule in place for its
\* interface and forwarding on.
UpForwards ==
    pc \in {"starting", "binding", "up"} =>
      ip_forward /\ \A k \in Kind : Copies(k) >= 1

\* After a clean stop, or a start that failed with the guard in place, and no
\* warning from Drop, nothing is left of the rules for the run's interface, the
\* copies that earlier killed runs left included, but a copy for each
\* deletion that enable_masquerade has let fail.
CleanStop ==
    stopped /\ ~warned => \A k \in Kind : Copies(k) <= missed[<<k, wan>>]

\* Between two runs ip_forward has the value from before the first one, unless
\* a run that found it off was killed, failed with no guard in place, or could
\* not read the setting or write it back: from then on it is on for good, as
\* the runs that follow find it on and restore that.
ForwardingRestored == pc = "down" => (ip_forward <=> original \/ left_on)

=============================================================================
