--------------------------- MODULE NatGuardProofs ---------------------------
(***************************************************************************)
(* NatGuard's invariants for any set of WAN interfaces and any number of   *)
(* deletions that fail.                                                    *)
(***************************************************************************)
EXTENDS NatGuard, TLAPS

\* The rule is absent but for what failed deletions have left, or present.
Cleared(k) == rules[<<k, wan>>] <= missed[<<k, wan>>]
Present(k) == rules[<<k, wan>>] >= 1

Last2 == <<ForwardOut, ForwardIn>>
Last1 == <<ForwardIn>>
Drop2 == <<ForwardOut, Masquerade>>
Drop1 == <<Masquerade>>

\* The kernel's rules, with no more copies than there is reason for.
Tables ==
    /\ rules \in [Rule -> Nat]
    /\ missed \in [Rule -> 0 .. MaxMissed]
    /\ \A r \in Rule : rules[r] <= 1 + missed[r]

\* The types, with the lists that occur.
Shape ==
    /\ ip_forward \in BOOLEAN
    /\ wan \in Wan
    /\ pc \in {"down", "purge", "install", "starting", "binding", "up", "drop"}
    /\ prior \in BOOLEAN \cup {None}
    /\ original \in BOOLEAN /\ found \in BOOLEAN /\ left_on \in BOOLEAN
    /\ stopped \in BOOLEAN /\ warned \in BOOLEAN
    /\ todo \in {<<>>, InstallOrder, Last2, Last1, DropOrder, Drop2, Drop1}
    /\ pc \in {"purge", "install"} => todo \in {InstallOrder, Last2, Last1}
    /\ pc = "drop" => todo \in {DropOrder, Drop2, Drop1, <<>>}

\* What Purge has been through is cleared.
PurgeInv ==
    pc = "purge" => /\ todo # InstallOrder => Cleared(Masquerade)
                    /\ todo = Last1 => Cleared(ForwardOut)

\* What Install has been through is present, and the rest is cleared.
InstallInv ==
    pc = "install" =>
      /\ IF todo = InstallOrder THEN Cleared(Masquerade) ELSE Present(Masquerade)
      /\ IF todo = Last1 THEN Present(ForwardOut) ELSE Cleared(ForwardOut)
      /\ Cleared(ForwardIn)

\* What DropRule has been through is cleared, as long as nothing failed.
DropInv ==
    pc = "drop" /\ warned = FALSE =>
      /\ todo # DropOrder => Cleared(ForwardIn)
      /\ todo \in {Drop1, <<>>} => Cleared(ForwardOut)
      /\ todo = <<>> => Cleared(Masquerade)

\* What ip_forward is to be between two runs.
Expected == IF original = TRUE \/ left_on = TRUE THEN TRUE ELSE FALSE

\* A process runs with forwarding on, and knows the setting it found, if it
\* could read it.
ForwardInv ==
    IF pc = "down" THEN ip_forward = Expected
    ELSE /\ ip_forward = TRUE
         /\ found = Expected
         /\ prior \in {found, None}
         /\ stopped = FALSE

\* CleanStop and UpForwards, with Boolean variables compared.
StopInv == stopped = TRUE /\ warned = FALSE => \A k \in Kind : Cleared(k)
UpInv == pc \in {"starting", "binding", "up"} => \A k \in Kind : Present(k)

IInv ==
    /\ Tables
    /\ Shape
    /\ PurgeInv /\ InstallInv /\ UpInv /\ DropInv
    /\ ForwardInv
    /\ StopInv

-----------------------------------------------------------------------------
\* The lists as enable_masquerade and Drop walk through them.
LEMMA Lists ==
    /\ Head(InstallOrder) = Masquerade /\ Tail(InstallOrder) = Last2
    /\ Head(Last2) = ForwardOut /\ Tail(Last2) = Last1
    /\ Head(Last1) = ForwardIn /\ Tail(Last1) = <<>>
    /\ Len(InstallOrder) = 3 /\ Len(Last2) = 2 /\ Len(Last1) = 1
    /\ Head(DropOrder) = ForwardIn /\ Tail(DropOrder) = Drop2
    /\ Head(Drop2) = ForwardOut /\ Tail(Drop2) = Drop1
    /\ Head(Drop1) = Masquerade /\ Tail(Drop1) = <<>>
BY DEF InstallOrder, Last2, Last1, DropOrder, Drop2, Drop1

\* ... and that they differ where the invariant tells them apart.
LEMMA ListsDiffer ==
    /\ InstallOrder # Last2 /\ InstallOrder # Last1 /\ Last2 # Last1
    /\ DropOrder # Drop2 /\ DropOrder # Drop1 /\ DropOrder # <<>>
    /\ Drop2 # Drop1 /\ Drop2 # <<>> /\ Drop1 # <<>>
BY DEF InstallOrder, Last2, Last1, DropOrder, Drop2, Drop1

\* The three rules differ.
LEMMA Kinds ==
    /\ Kind = {Masquerade, ForwardOut, ForwardIn}
    /\ Masquerade # ForwardOut /\ Masquerade # ForwardIn /\ ForwardOut # ForwardIn
BY DEF Kind, Masquerade, ForwardOut, ForwardIn

\* -A of a cleared rule makes it present, with no copy too many, and touches no
\* other.
LEMMA AddRule ==
    ASSUME Tables, wan \in Wan, NEW k \in Kind, Cleared(k),
           rules' = Add(k), wan' = wan, missed' = missed
    PROVE  /\ Tables'
           /\ Present(k)'
           /\ \A j \in Kind \ {k} : /\ Cleared(j) => Cleared(j)'
                                    /\ Present(j) => Present(j)'
BY NatAssumption DEF Tables, Rule, Cleared, Present, Add

\* -D leaves the rule cleared, as there is one copy too many at most, and touches
\* no other.
LEMMA DeleteRule ==
    ASSUME Tables, wan \in Wan, NEW k \in Kind,
           rules' = Delete(k), wan' = wan, missed' = missed
    PROVE  /\ Tables'
           /\ Cleared(k)'
           /\ \A j \in Kind \ {k} : Cleared(j) => Cleared(j)'
BY NatAssumption DEF Tables, Rule, Cleared, Delete

\* A deletion that fails and is passed over is the reason for the copy it leaves.
LEMMA MissRule ==
    ASSUME Tables, wan \in Wan, NEW k \in Kind, missed[<<k, wan>>] < MaxMissed,
           missed' = [missed EXCEPT ![<<k, wan>>] = @ + 1],
           rules' = rules, wan' = wan
    PROVE  /\ Tables'
           /\ Cleared(k)'
           /\ \A j \in Kind \ {k} : Cleared(j) => Cleared(j)'
BY NatAssumption DEF Tables, Rule, Cleared

\* Nothing has run yet.
LEMMA InitIInv == Init => IInv
<1> SUFFICES ASSUME Init PROVE IInv
  OBVIOUS
<1>1. Tables
  BY NatAssumption DEF Init, Tables
<1>2. Shape
  BY DEF Init, Shape
<1>3. ForwardInv
  <2>1. /\ pc = "down" /\ original = ip_forward /\ left_on = FALSE
        /\ ip_forward = TRUE \/ ip_forward = FALSE
    BY DEF Init
  <2> QED BY <2>1 DEF ForwardInv, Expected
<1> QED
  BY <1>1, <1>2, <1>3 DEF Init, IInv, PurgeInv, InstallInv, DropInv, StopInv, UpInv

\* One step per action.  Purge, Install and DropRule go through the lists one
\* rule at a time.
LEMMA StepIInv == IInv /\ [Next]_vars => IInv'
<1> USE DEF Shape, PurgeInv, InstallInv, DropInv, ForwardInv, Expected, StopInv, UpInv
<1> SUFFICES ASSUME IInv, [Next]_vars PROVE IInv'
  OBVIOUS
<1>1. CASE EnableForwarding
  <2>1. Tables'
    BY <1>1 DEF EnableForwarding, IInv, Tables
  <2>2. PICK read \in {ip_forward, None} :
          \/ prior' = read /\ ip_forward' = TRUE /\ pc' = "purge" /\ todo' = InstallOrder
          \/ read # TRUE /\ Down /\ UNCHANGED ip_forward
    BY <1>1 DEF EnableForwarding
  <2> QED BY <1>1, <2>1, <2>2, ListsDiffer DEF EnableForwarding, Down, IInv
<1>2. CASE Purge
  <2>1. PICK k \in Kind : k = Head(todo)
    BY <1>2, Lists, Kinds DEF Purge, IInv
  <2>2. /\ Tables'
        /\ Cleared(k)'
        /\ \A j \in Kind \ {k} : Cleared(j) => Cleared(j)'
    <3>1. CASE rules' = Delete(k) /\ UNCHANGED missed
      BY <1>2, <3>1, DeleteRule DEF Purge, IInv
    <3>2. CASE /\ missed[<<k, wan>>] < MaxMissed
               /\ missed' = [missed EXCEPT ![<<k, wan>>] = @ + 1]
               /\ UNCHANGED rules
      BY <1>2, <3>2, MissRule DEF Purge, IInv
    <3> QED BY <1>2, <2>1, <3>1, <3>2 DEF Purge
  <2>3. UNCHANGED <<ip_forward, wan, prior, original, found, left_on, stopped, warned>>
    BY <1>2 DEF Purge, ended
  <2>4. CASE todo = InstallOrder
    <3>1. k = Masquerade /\ pc' = "purge" /\ todo' = Last2
      BY <1>2, <2>1, <2>4, Lists DEF Purge
    <3> QED BY <1>2, <2>2, <2>3, <3>1, ListsDiffer DEF Purge, IInv
  <2>5. CASE todo = Last2
    <3>1. k = ForwardOut /\ pc' = "purge" /\ todo' = Last1
      BY <1>2, <2>1, <2>5, Lists DEF Purge
    <3>2. Cleared(Masquerade)'
      BY <1>2, <2>2, <2>5, <3>1, ListsDiffer, Kinds DEF Purge, IInv
    <3> QED BY <1>2, <2>2, <2>3, <3>1, <3>2, ListsDiffer DEF Purge, IInv
  <2>6. CASE todo = Last1
    <3>1. k = ForwardIn /\ pc' = "install" /\ todo' = InstallOrder
      BY <1>2, <2>1, <2>6, Lists DEF Purge
    <3>2. Cleared(Masquerade)' /\ Cleared(ForwardOut)'
      BY <1>2, <2>2, <2>6, <3>1, ListsDiffer, Kinds DEF Purge, IInv
    <3> QED BY <1>2, <2>2, <2>3, <3>1, <3>2, ListsDiffer DEF Purge, IInv
  <2> QED BY <1>2, <2>4, <2>5, <2>6 DEF Purge, IInv
<1>3. CASE Install
  <2>1. CASE Down /\ LeaveOn /\ UNCHANGED rules
    <3>1. Tables' /\ (\A k : Cleared(k) => Cleared(k)')
      BY <1>3, <2>1 DEF Install, IInv, Tables, Cleared
    <3> QED BY <1>3, <2>1, <3>1 DEF Install, Down, LeaveOn, IInv, ended
  <2>2. CASE /\ rules' = Add(Head(todo))
             /\ todo' = Tail(todo)
             /\ pc' = IF Len(todo) = 1 THEN "starting" ELSE "install"
             /\ UNCHANGED <<prior, left_on>>
    <3>1. PICK k \in Kind : k = Head(todo) /\ Cleared(k)
      BY <1>3, Lists, ListsDiffer, Kinds DEF Install, IInv
    <3>2. /\ Tables'
          /\ Present(k)'
          /\ \A j \in Kind \ {k} : /\ Cleared(j) => Cleared(j)'
                                   /\ Present(j) => Present(j)'
      BY <1>3, <2>2, <3>1, AddRule DEF Install, IInv
    <3>3. UNCHANGED <<ip_forward, wan, prior, original, found, left_on, stopped, warned>>
      BY <1>3, <2>2 DEF Install, ended
    <3>4. CASE todo = InstallOrder
      <4>1. k = Masquerade /\ pc' = "install" /\ todo' = Last2
        BY <1>3, <2>2, <3>1, <3>4, Lists DEF Install
      <4>2. Cleared(ForwardOut)' /\ Cleared(ForwardIn)'
        BY <1>3, <3>2, <3>4, <4>1, ListsDiffer, Kinds DEF Install, IInv
      <4> QED BY <1>3, <3>2, <3>3, <4>1, <4>2, ListsDiffer DEF Install, IInv
    <3>5. CASE todo = Last2
      <4>1. k = ForwardOut /\ pc' = "install" /\ todo' = Last1
        BY <1>3, <2>2, <3>1, <3>5, Lists DEF Install
      <4>2. Present(Masquerade)' /\ Cleared(ForwardIn)'
        BY <1>3, <3>2, <3>5, <4>1, ListsDiffer, Kinds DEF Install, IInv
      <4> QED BY <1>3, <3>2, <3>3, <4>1, <4>2, ListsDiffer DEF Install, IInv
    <3>6. CASE todo = Last1
      <4>1. k = ForwardIn /\ pc' = "starting" /\ todo' = <<>>
        BY <1>3, <2>2, <3>1, <3>6, Lists DEF Install
      <4>2. \A j \in Kind : Present(j)'
        BY <1>3, <3>2, <3>6, <4>1, ListsDiffer, Kinds DEF Install, IInv
      <4> QED BY <1>3, <3>2, <3>3, <4>1, <4>2 DEF Install, IInv
    <3> QED BY <1>3, <3>4, <3>5, <3>6 DEF Install, IInv
  <2> QED BY <1>3, <2>1, <2>2 DEF Install
<1>4. ASSUME UNCHANGED <<rules, missed, wan>>
      PROVE  Tables' /\ \A k : (Cleared(k)' <=> Cleared(k)) /\ (Present(k)' <=> Present(k))
  BY <1>4 DEF IInv, Tables, Cleared, Present
<1>5. CASE CreateTun \/ BindTcp \/ Stop
  <2>1. /\ UNCHANGED <<rules, missed, wan>>
        /\ UNCHANGED <<ip_forward, prior, original, found, left_on, stopped, warned>>
    BY <1>5 DEF CreateTun, BindTcp, Stop, host, ended
  <2>2. /\ pc \in {"starting", "binding", "up"}
        /\ \/ pc' \in {"binding", "up"} /\ UNCHANGED todo
           \/ pc' = "drop" /\ todo' = DropOrder
    BY <1>5 DEF CreateTun, BindTcp, Stop, BeginDrop
  <2>3. Tables' /\ \A k : (Cleared(k)' <=> Cleared(k)) /\ (Present(k)' <=> Present(k))
    BY <1>4, <2>1
  <2>4. Shape'
    BY <2>1, <2>2 DEF IInv
  <2>5. ForwardInv' /\ StopInv'
    BY <2>1, <2>2, <2>3 DEF IInv
  <2>6. PurgeInv' /\ InstallInv' /\ DropInv' /\ UpInv'
    BY <2>2, <2>3, ListsDiffer DEF IInv
  <2> QED BY <2>3, <2>4, <2>5, <2>6 DEF IInv
<1>6. CASE DropRule
  <2>1. /\ UNCHANGED <<ip_forward, wan, pc, prior, missed, original, found, left_on, stopped>>
        /\ pc = "drop" /\ todo # <<>> /\ todo' = Tail(todo)
    BY <1>6 DEF DropRule
  <2>2. CASE warned' = TRUE /\ UNCHANGED rules
    <3>1. Tables' /\ \A k : (Cleared(k)' <=> Cleared(k)) /\ (Present(k)' <=> Present(k))
      BY <1>4, <2>1, <2>2
    <3> QED BY <2>1, <2>2, <3>1, Lists, ListsDiffer DEF IInv
  <2>3. CASE rules' = Delete(Head(todo)) /\ UNCHANGED warned
    <3>1. PICK k \in Kind : k = Head(todo)
      BY <2>1, Lists, Kinds DEF IInv
    <3>2. /\ Tables'
          /\ Cleared(k)'
          /\ \A j \in Kind \ {k} : Cleared(j) => Cleared(j)'
      BY <2>1, <2>3, <3>1, DeleteRule DEF IInv
    <3>3. CASE todo = DropOrder
      BY <2>1, <2>3, <3>1, <3>2, <3>3, Lists, ListsDiffer, Kinds DEF IInv
    <3>4. CASE todo = Drop2
      BY <2>1, <2>3, <3>1, <3>2, <3>4, Lists, ListsDiffer, Kinds DEF IInv
    <3>5. CASE todo = Drop1
      BY <2>1, <2>3, <3>1, <3>2, <3>5, Lists, ListsDiffer, Kinds DEF IInv
    <3> QED BY <2>1, <3>3, <3>4, <3>5 DEF IInv
  <2> QED BY <1>6, <2>2, <2>3 DEF DropRule
<1>7. CASE Restore
  <2>1. /\ pc = "drop" /\ todo = <<>> /\ pc' = "down" /\ todo' = <<>>
        /\ prior' = None /\ stopped' = TRUE
        /\ UNCHANGED <<rules, wan, missed, original, found, warned>>
    BY <1>7 DEF Restore, Down
  <2>2. Tables' /\ \A k : (Cleared(k)' <=> Cleared(k)) /\ (Present(k)' <=> Present(k))
    BY <1>4, <2>1
  <2>3. warned = FALSE => \A k \in Kind : Cleared(k)'
    BY <2>1, <2>2, ListsDiffer, Kinds DEF IInv
  <2>4. /\ ip_forward' \in BOOLEAN /\ left_on' \in BOOLEAN
        /\ ip_forward' = Expected'
    <3>1. CASE prior # None /\ ip_forward' = prior /\ UNCHANGED left_on
      BY <2>1, <3>1 DEF IInv
    <3>2. CASE LeaveOn /\ UNCHANGED ip_forward
      BY <2>1, <3>2 DEF LeaveOn, IInv
    <3> QED BY <1>7, <3>1, <3>2 DEF Restore
  <2> QED BY <2>1, <2>2, <2>3, <2>4 DEF IInv
<1>8. CASE Crash
  <2>1. /\ pc # "down" /\ pc' = "down" /\ todo' = <<>> /\ prior' = None /\ LeaveOn
        /\ UNCHANGED <<rules, ip_forward, wan, missed, original, found, stopped, warned>>
    BY <1>8 DEF Crash, Down, host, ended
  <2>2. Tables' /\ \A k : (Cleared(k)' <=> Cleared(k)) /\ (Present(k)' <=> Present(k))
    BY <1>4, <2>1
  <2> QED BY <2>1, <2>2 DEF LeaveOn, IInv
<1>9. CASE UNCHANGED vars
  <2>1. UNCHANGED <<rules, ip_forward, wan, pc, todo, prior, missed, original, found,
                    left_on, stopped, warned>>
    BY <1>9 DEF vars, host, ended
  <2>2. Tables' /\ \A k : (Cleared(k)' <=> Cleared(k)) /\ (Present(k)' <=> Present(k))
    BY <1>4, <2>1
  <2>3. Shape'
    BY <2>1 DEF IInv
  <2>4. ForwardInv'
    BY <2>1 DEF IInv
  <2>5. PurgeInv' /\ InstallInv' /\ DropInv'
    BY <2>1, <2>2 DEF IInv
  <2>6. StopInv' /\ UpInv'
    BY <2>1, <2>2 DEF IInv
  <2> QED BY <2>2, <2>3, <2>4, <2>5, <2>6 DEF IInv
<1> QED
  BY <1>1, <1>2, <1>3, <1>5, <1>6, <1>7, <1>8, <1>9 DEF Next

\* The invariant holds in every state.
LEMMA Invariance == Spec => []IInv
<1>1. IInv /\ [Next]_vars => IInv'
  BY StepIInv
<1> QED BY InitIInv, <1>1, PTL DEF Spec

-----------------------------------------------------------------------------
\* enable_masquerade, Drop and the crashes between them keep the types, for any
\* set of WAN interfaces.
THEOREM TypeCorrect == Spec => []TypeOK
<1>1. IInv => TypeOK
  <2> SUFFICES ASSUME IInv PROVE TypeOK
    OBVIOUS
  <2>1. todo \in Seq(Kind) /\ Len(todo) <= 3
    <3>1. CASE todo = InstallOrder
      BY <3>1 DEF InstallOrder, Kind
    <3>2. CASE todo = Last2
      BY <3>2 DEF Last2, Kind
    <3>3. CASE todo = Last1
      BY <3>3 DEF Last1, Kind
    <3>4. CASE todo = DropOrder
      BY <3>4 DEF DropOrder, Kind
    <3>5. CASE todo = Drop2
      BY <3>5 DEF Drop2, Kind
    <3>6. CASE todo = Drop1
      BY <3>6 DEF Drop1, Kind
    <3>7. CASE todo = <<>>
      BY <3>7
    <3> QED BY <3>1, <3>2, <3>3, <3>4, <3>5, <3>6, <3>7 DEF IInv, Shape
  <2> QED BY <2>1 DEF TypeOK, IInv, Tables, Shape
<1> QED BY Invariance, <1>1, PTL

\* Whatever runs are killed, fail to start or fail to clean up, and whatever
\* iptables calls fail, a rule has no more copies than one and the deletions
\* of it that enable_masquerade has passed over.
THEOREM CopiesHaveReasons == Spec => []CopiesAccounted
<1>1. IInv => CopiesAccounted
  BY DEF IInv, Tables, CopiesAccounted
<1> QED BY Invariance, <1>1, PTL

\* A process that got past enable_masquerade has all that forwarding needs.
THEOREM ServerForwards == Spec => []UpForwards
<1>1. IInv => UpForwards
  BY DEF IInv, UpInv, ForwardInv, UpForwards, Present, Copies
<1> QED BY Invariance, <1>1, PTL

\* A Drop whose deletions all succeeded leaves no copy of a rule for its
\* interface but those that enable_masquerade failed to delete, in this run or
\* in an earlier one.
THEOREM StopIsClean == Spec => []CleanStop
<1>1. IInv => CleanStop
  BY DEF IInv, Shape, StopInv, CleanStop, Cleared, Copies
<1> QED BY Invariance, <1>1, PTL

\* Between two runs ip_forward is what it was before the first one, unless one
\* of the ends named in ForwardingRestored has left it on.
THEOREM SettingRestored == Spec => []ForwardingRestored
<1>1. IInv => ForwardingRestored
  BY DEF IInv, Shape, ForwardInv, Expected, ForwardingRestored
<1> QED BY Invariance, <1>1, PTL
=============================================================================
