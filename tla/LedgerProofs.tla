---------------------------- MODULE LedgerProofs ----------------------------
(***************************************************************************)
(* What CreditLedger entails: the credits operations of                    *)
(* platform_core/db/supabase_client.py keep every credit accounted for and *)
(* the free ones capped, as long as they implement it.                     *)
(***************************************************************************)
EXTENDS CreditLedger, TLAPS

LedgerInv ==
  /\ today \in Nat /\ opened \subseteq User
  /\ balance \in [User -> Nat] /\ resetDay \in [User -> Nat]
  /\ spent \in [User -> Nat] /\ paid \in [User -> Nat] /\ granted \in [User -> Nat]
  /\ \A u \in User \ opened : balance[u] = 0 /\ granted[u] = 0
  /\ Balanced
  /\ FreeCapped

LEMMA AllowanceGrows ==
  ASSUME NEW f \in Nat, NEW d \in Nat, NEW e \in Nat, d < e
  PROVE  f * (d + 1) + f <= f * (e + 1)
<1>1. f * (e + 1) = f * (d + 1) + f * (e - d)
  OBVIOUS
<1>2. f * (e - d) >= f
  <2>. DEFINE k == e - d - 1
  <2>1. k \in Nat /\ e - d = k + 1
    OBVIOUS
  <2>2. f * (k + 1) = f * k + f /\ f * k >= 0
    BY <2>1
  <2>. QED
    BY <2>1, <2>2
<1>. QED
  BY <1>1, <1>2

LEMMA AllowanceBase ==
  ASSUME NEW f \in Nat, NEW d \in Nat
  PROVE  f <= f * (d + 1)
<1>1. f * (d + 1) = f * d + f /\ f * d >= 0
  OBVIOUS
<1>. QED
  BY <1>1

LEMMA InitLedger ==
  ASSUME LedgerParameters, Init
  PROVE  LedgerInv
<1>1. Free * (0 + 1) = Free /\ Free >= 0
  BY DEF LedgerParameters
<1>. QED
  BY <1>1 DEF LedgerParameters, Init, LedgerInv, Balanced, FreeCapped

LEMMA OpenKeeps ==
  ASSUME LedgerParameters, LedgerInv, NEW u \in User, Open(u)
  PROVE  LedgerInv'
<1>1. PICK d \in 0 .. today : resetDay' = [resetDay EXCEPT ![u] = d]
  BY DEF Open
<1>2. d \in Nat /\ Free <= Free * (d + 1)
  BY AllowanceBase DEF LedgerInv, LedgerParameters
<1>3. FreeCapped'
  BY <1>1, <1>2 DEF Open, LedgerInv, LedgerParameters, FreeCapped
<1>4. Balanced'
  BY DEF Open, LedgerInv, LedgerParameters, Balanced
<1>. QED
  BY <1>1, <1>2, <1>3, <1>4 DEF Open, LedgerInv, LedgerParameters

LEMMA TopUpKeeps ==
  ASSUME LedgerParameters, LedgerInv, NEW u \in User, TopUp(u)
  PROVE  LedgerInv'
<1>. DEFINE filled == IF balance[u] < Free THEN Free ELSE balance[u]
<1>1. PICK d \in resetDay[u] + 1 .. today : resetDay' = [resetDay EXCEPT ![u] = d]
  BY DEF TopUp
<1>2. /\ balance' = [balance EXCEPT ![u] = filled]
      /\ granted' = [granted EXCEPT ![u] = @ + (filled - balance[u])]
      /\ u \in opened /\ UNCHANGED <<today, opened, spent, paid>>
  BY DEF TopUp
<1>3. filled \in Nat /\ filled - balance[u] \in Nat /\ filled - balance[u] <= Free
  BY DEF LedgerInv, LedgerParameters
<1>4. d \in Nat /\ resetDay[u] < d /\ d <= today
  BY DEF LedgerInv
<1>5. granted[u] + (filled - balance[u]) <= Free * (d + 1)
  <2>1. Free * (resetDay[u] + 1) + Free <= Free * (d + 1)
    BY <1>4, AllowanceGrows DEF LedgerInv, LedgerParameters
  <2>2. granted[u] <= Free * (resetDay[u] + 1) /\ granted[u] \in Nat
    BY DEF LedgerInv, FreeCapped
  <2>3. Free * (resetDay[u] + 1) \in Nat /\ Free * (d + 1) \in Nat
    BY <1>4 DEF LedgerInv, LedgerParameters
  <2>. HIDE DEF filled
  <2>. QED
    BY <1>3, <2>1, <2>2, <2>3 DEF LedgerInv, LedgerParameters
<1>. HIDE DEF filled
<1>6. FreeCapped'
  BY <1>1, <1>2, <1>4, <1>5 DEF LedgerInv, FreeCapped
<1>7. Balanced'
  BY <1>2, <1>3 DEF LedgerInv, Balanced
<1>. QED
  BY <1>1, <1>2, <1>3, <1>4, <1>6, <1>7 DEF LedgerInv

LEMMA SpendKeeps ==
  ASSUME LedgerParameters, LedgerInv, NEW u \in User, Spend(u)
  PROVE  LedgerInv'
<1>1. Balanced'
  BY DEF Spend, LedgerInv, Balanced
<1>2. FreeCapped'
  BY DEF Spend, LedgerInv, FreeCapped
<1>. QED
  BY <1>1, <1>2 DEF Spend, LedgerInv

LEMMA CreditKeeps ==
  ASSUME LedgerParameters, LedgerInv, NEW u \in User, NEW ch \in Charge, Credit(u, ch)
  PROVE  LedgerInv'
<1>1. Credits[ch] \in Nat
  BY DEF LedgerParameters
<1>2. Balanced'
  BY <1>1 DEF Credit, LedgerInv, Balanced
<1>3. FreeCapped'
  BY DEF Credit, LedgerInv, FreeCapped
<1>. QED
  BY <1>1, <1>2, <1>3 DEF Credit, LedgerInv

LEMMA NextLedger ==
  ASSUME LedgerParameters, LedgerInv, [Next]_vars
  PROVE  LedgerInv'
<1>1. CASE Midnight
  BY <1>1 DEF Midnight, LedgerInv, Balanced, FreeCapped
<1>2. CASE UNCHANGED vars
  BY <1>2 DEF vars, LedgerInv, Balanced, FreeCapped
<1>. QED
  BY <1>1, <1>2, OpenKeeps, TopUpKeeps, SpendKeeps, CreditKeeps DEF Next

(* An implementation of the ledger gives nobody more than a day's free     *)
(* credits for each day up to the last one it granted them on: the         *)
(* condition days_passed > 0 of get_user_balance (supabase_client.py:219). *)
THEOREM FreeCreditsCapped ==
  ASSUME LedgerParameters
  PROVE  Spec => []FreeCapped
<1>1. Init => LedgerInv
  BY InitLedger
<1>2. LedgerInv /\ [Next]_vars => LedgerInv'
  BY NextLedger
<1>3. LedgerInv => FreeCapped
  BY DEF LedgerInv
<1>. QED
  BY <1>1, <1>2, <1>3, PTL DEF Spec

(* ... and every credit is the user's, or was spent, and came from a       *)
(* charge or a day's allowance.                                            *)
THEOREM CreditsAccounted ==
  ASSUME LedgerParameters
  PROVE  Spec => []Balanced
<1>1. Init => LedgerInv
  BY InitLedger
<1>2. LedgerInv /\ [Next]_vars => LedgerInv'
  BY NextLedger
<1>3. LedgerInv => Balanced
  BY DEF LedgerInv
<1>. QED
  BY <1>1, <1>2, <1>3, PTL DEF Spec
=============================================================================
