------------------------- MODULE PolicyStoreProofs -------------------------
(***************************************************************************)
(* Theorems about PolicyStore, for any clubs, editors and patches.         *)
(***************************************************************************)
EXTENDS PolicyStore, SequenceTheorems, TLAPS

-----------------------------------------------------------------------------
(* The conversions.                                                         *)

\* The fields of the policy and their kinds.
LEMMA FieldKinds ==
    /\ RuleFields \subseteq PolicyFields
    /\ BooleanFields \subseteq PolicyFields
    /\ "autoApproveMaxRisk" \in PolicyFields
    /\ "autoApproveMaxRisk" \notin RuleFields \cup BooleanFields \cup RoleFields
    /\ RuleFields \cap BooleanFields = {}
BY DEF PolicyFields, defaultWorkflowPolicy, RuleFields, BooleanFields, RoleFields

\* A policy that does not clear the organization's booleans can be stored.
LEMMA StoredIsRow ==
    ASSUME NEW scope, NEW policy, IsPolicy(policy),
           scope = Organization => \A field \in BooleanFields : policy[field] # Null
    PROVE  IsRow(scope, StoredPolicy(policy))
<1> DEFINE row == StoredPolicy(policy)
<1>1. DOMAIN row = PolicyFields
  BY DEF StoredPolicy
<1>2. ASSUME NEW field \in PolicyFields
      PROVE  FieldValueOK(field, row[field])
  <2>1. CASE field \in RuleFields
    BY <2>1 DEF FieldValueOK
  <2>2. CASE field = "autoApproveMaxRisk" /\ policy[field] # Null
    <3>1. policy[field] \in 0..1000
      BY <2>2, FieldKinds DEF IsPolicy, FieldValueOK
    <3>2. row[field] = Rounded(policy[field])
      BY <2>2, FieldKinds DEF StoredPolicy
    <3>3. Rounded(policy[field]) \in 0..1000
      BY <3>1, SMT DEF Rounded
    <3> QED
      BY <2>2, <3>2, <3>3 DEF FieldValueOK
  <2>3. CASE field \notin RuleFields /\ ~(field = "autoApproveMaxRisk" /\ policy[field] # Null)
    <3>1. row[field] = policy[field]
      BY <2>3 DEF StoredPolicy
    <3> QED
      BY <3>1 DEF IsPolicy
  <2> QED
    BY <2>1, <2>2, <2>3
<1>3. \A field \in RuleFields : row[field] # Null
  BY FieldKinds, StoreAssumption DEF StoredPolicy
<1>4. scope = Organization => \A field \in BooleanFields : row[field] # Null
  BY FieldKinds DEF StoredPolicy
<1>5. row["autoApproveMaxRisk"] # Null => row["autoApproveMaxRisk"] % 10 = 0
  <2>1. CASE policy["autoApproveMaxRisk"] = Null
    BY <2>1, FieldKinds DEF StoredPolicy
  <2>2. CASE policy["autoApproveMaxRisk"] # Null
    <3>1. policy["autoApproveMaxRisk"] \in 0..1000
      BY <2>2, FieldKinds DEF IsPolicy, FieldValueOK
    <3>2. row["autoApproveMaxRisk"] = Rounded(policy["autoApproveMaxRisk"])
      BY <2>2, FieldKinds DEF StoredPolicy
    <3>3. Rounded(policy["autoApproveMaxRisk"]) % 10 = 0
      BY <3>1, SMT DEF Rounded
    <3> QED
      BY <3>2, <3>3
  <2> QED
    BY <2>1, <2>2
<1> QED
  BY <1>1, <1>2, <1>3, <1>4, <1>5 DEF IsRow, IsPolicy

\* What a reader of a row gets is a policy, with the organization's booleans set.
LEMMA LoadedIsPolicy ==
    ASSUME NEW scope, NEW row, IsRow(scope, row)
    PROVE  /\ IsPolicy(LoadedPolicy(scope, row))
           /\ scope = Organization =>
                \A field \in BooleanFields : LoadedPolicy(scope, row)[field] # Null
<1>1. ASSUME NEW field \in PolicyFields
      PROVE  FieldValueOK(field, LoadedPolicy(scope, row)[field])
  BY DEF LoadedPolicy, IsRow, IsPolicy, FieldValueOK
<1>2. scope = Organization =>
        \A field \in BooleanFields : LoadedPolicy(scope, row)[field] # Null
  BY FieldKinds DEF LoadedPolicy, IsRow
<1> QED
  BY <1>1, <1>2 DEF LoadedPolicy, IsPolicy

\* A patched policy is a policy.
LEMMA AppliedIsPolicy ==
    ASSUME NEW policy, IsPolicy(policy), NEW patch,
           \A field \in DOMAIN patch : FieldValueOK(field, patch[field])
    PROVE  IsPolicy(applyPatch(policy, patch))
BY DEF applyPatch, IsPolicy

\* What the console's form sends for a page of a policy is a policy.
LEMMA FormIsPolicy ==
    ASSUME NEW scope, NEW shown, IsPolicy(shown), NEW edits,
           \A field \in DOMAIN edits : FieldValueOK(field, edits[field])
    PROVE  IsPolicy(FormPatch(scope, shown, edits))
<1> DEFINE edited == applyPatch(shown, edits)
<1>1. IsPolicy(edited)
  BY AppliedIsPolicy
<1> HIDE DEF edited
<1>2. ASSUME NEW field \in PolicyFields
      PROVE  FieldValueOK(field, FormValue(scope, field, edited[field]))
  <2>1. CASE field \in RuleFields
    BY <2>1 DEF FieldValueOK
  <2>2. CASE field \notin RuleFields
    BY <1>1, <2>2 DEF FormValue, IsPolicy
  <2> QED
    BY <2>1, <2>2
<1>3. FormPatch(scope, shown, edits) =
          [field \in PolicyFields |-> FormValue(scope, field, edited[field])]
  BY DEF FormPatch, edited
<1> QED
  BY <1>2, <1>3 DEF IsPolicy

\* A value that a row holds is stored as it is.
LEMMA RowValueIsStored ==
    ASSUME NEW scope, NEW row, IsRow(scope, row), NEW policy, NEW field \in PolicyFields,
           policy[field] = row[field], policy[field] # Null
    PROVE  StoredPolicy(policy)[field] = row[field]
<1>1. CASE field = "autoApproveMaxRisk"
  <2>1. row[field] \in 0..1000 /\ row[field] % 10 = 0
    BY <1>1, FieldKinds DEF IsRow, IsPolicy, FieldValueOK
  <2>2. Rounded(row[field]) = row[field]
    BY <2>1, SMT DEF Rounded
  <2> QED
    BY <1>1, <2>2 DEF StoredPolicy
<1>2. CASE field # "autoApproveMaxRisk"
  BY <1>2 DEF StoredPolicy
<1> QED
  BY <1>1, <1>2

\* What a reader of a row gets and sends back is stored as the row has it.
LEMMA LoadedIsStored ==
    ASSUME NEW scope \in Scopes, NEW row, IsRow(scope, row), NEW policy,
           NEW field \in PolicyFields, policy[field] = LoadedPolicy(scope, row)[field]
    PROVE  StoredPolicy(policy)[field] = row[field]
<1>1. CASE scope # Organization /\ field \in RuleFields /\ row[field] = EmptyObject
  <2>1. policy[field] = Null
    BY <1>1 DEF LoadedPolicy, parseOverrideJson
  <2> QED
    BY <1>1, <2>1 DEF StoredPolicy
<1>2. CASE ~(scope # Organization /\ field \in RuleFields /\ row[field] = EmptyObject)
  <2>1. policy[field] = row[field]
    BY <1>2 DEF LoadedPolicy, parseOverrideJson
  <2>2. CASE row[field] = Null
    <3>1. field \notin RuleFields
      BY <2>2 DEF IsRow
    <3> QED
      BY <2>1, <2>2, <3>1 DEF StoredPolicy
  <2>3. CASE row[field] # Null
    BY <2>1, <2>3, RowValueIsStored
  <2> QED
    BY <2>2, <2>3
<1> QED
  BY <1>1, <1>2

-----------------------------------------------------------------------------
(* Sequences of unknown elements.                                           *)

IsSequence(s) == s \in Seq({s[i] : i \in DOMAIN s})

\* The elements of s followed by x.
LEMMA AppendElements ==
    ASSUME NEW s, IsSequence(s), NEW x
    PROVE  /\ IsSequence(Append(s, x))
           /\ DOMAIN Append(s, x) = DOMAIN s \cup {Len(s) + 1}
           /\ DOMAIN s = 1..Len(s) /\ Len(s) \in Nat
           /\ \A i \in DOMAIN s : Append(s, x)[i] = s[i]
           /\ Append(s, x)[Len(s) + 1] = x
<1> DEFINE S == {s[i] : i \in DOMAIN s} \cup {x}
           t == Append(s, x)
<1>1. s \in Seq(S)
  <2>1. s \in Seq({s[i] : i \in DOMAIN s})
    BY DEF IsSequence
  <2> QED
    BY <2>1
<1>2. /\ t \in Seq(S)
      /\ Len(t) = Len(s) + 1
      /\ \A i \in 1..Len(s) : t[i] = s[i]
      /\ t[Len(s) + 1] = x
  BY <1>1, AppendProperties
<1>3. DOMAIN s = 1..Len(s) /\ Len(s) \in Nat /\ DOMAIN t = 1..(Len(s) + 1)
  BY <1>1, <1>2
<1>4. S \subseteq {t[i] : i \in DOMAIN t}
  BY <1>2, <1>3
<1>5. t \in Seq({t[i] : i \in DOMAIN t})
  BY <1>2, <1>4
<1> QED
  BY <1>2, <1>3, <1>5 DEF IsSequence

\* The elements of s after the first.
LEMMA TailElements ==
    ASSUME NEW s, IsSequence(s), s # <<>>
    PROVE  /\ IsSequence(Tail(s))
           /\ \A i \in DOMAIN Tail(s) : i + 1 \in DOMAIN s /\ Tail(s)[i] = s[i + 1]
           /\ 1 \in DOMAIN s /\ Head(s) = s[1]
<1> DEFINE S == {s[i] : i \in DOMAIN s}
           t == Tail(s)
<1>1. s \in Seq(S)
  BY DEF IsSequence
<1> HIDE DEF S
<1>2. /\ t \in Seq(S)
      /\ Len(t) = Len(s) - 1
      /\ \A i \in 1..Len(t) : t[i] = s[i + 1]
  BY <1>1, HeadTailProperties
<1>3. DOMAIN s = 1..Len(s) /\ Len(s) \in Nat \ {0} /\ DOMAIN t = 1..Len(t)
  BY <1>1, <1>2, EmptySeq, LenProperties
<1> HIDE DEF t
<1>4. t \in Seq({t[i] : i \in DOMAIN t})
  BY <1>2, <1>3
<1>5. \A i \in DOMAIN t : i + 1 \in DOMAIN s /\ t[i] = s[i + 1]
  BY <1>2, <1>3
<1>6. 1 \in DOMAIN s /\ Head(s) = s[1]
  BY <1>1, <1>3
<1> QED
  BY <1>4, <1>5, <1>6 DEF IsSequence, t

\* One element before those of s.
LEMMA ConsElements ==
    ASSUME NEW s, IsSequence(s), NEW x
    PROVE  /\ IsSequence(<<x>> \o s)
           /\ \A i \in DOMAIN (<<x>> \o s) :
                 (<<x>> \o s)[i] = x \/ \E j \in DOMAIN s : (<<x>> \o s)[i] = s[j]
           /\ <<x>> \o s # <<>> /\ (<<x>> \o s)[1] = x
           /\ \A i \in DOMAIN (<<x>> \o s) : i # 1 => \E j \in DOMAIN s : (<<x>> \o s)[i] = s[j]
<1> DEFINE S == {s[i] : i \in DOMAIN s} \cup {x}
           t == <<x>> \o s
<1>1. s \in Seq(S)
  <2>1. s \in Seq({s[i] : i \in DOMAIN s})
    BY DEF IsSequence
  <2> QED
    BY <2>1
<1>2. <<x>> \in Seq(S) /\ Len(<<x>>) = 1 /\ <<x>>[1] = x
  OBVIOUS
<1>3. /\ t \in Seq(S)
      /\ Len(t) = 1 + Len(s)
      /\ \A i \in 1..Len(t) : t[i] = IF i <= 1 THEN <<x>>[i] ELSE s[i - 1]
  <2> HIDE DEF S
  <2> QED
    BY <1>1, <1>2, ConcatProperties
<1>4. DOMAIN s = 1..Len(s) /\ Len(s) \in Nat /\ DOMAIN t = 1..Len(t)
  BY <1>1, <1>3, LenProperties
<1> HIDE DEF t
<1>5. t \in Seq({t[i] : i \in DOMAIN t})
  BY <1>3, <1>4
<1>6. /\ \A i \in DOMAIN t : t[i] = x \/ \E j \in DOMAIN s : t[i] = s[j]
      /\ \A i \in DOMAIN t : i # 1 => \E j \in DOMAIN s : t[i] = s[j]
  <2>1. t[1] = x
    BY <1>2, <1>3, <1>4
  <2>2. ASSUME NEW i \in DOMAIN t, i # 1
        PROVE  i - 1 \in DOMAIN s /\ t[i] = s[i - 1]
    BY <1>3, <1>4, <2>2
  <2> QED
    BY <2>1, <2>2
<1>7. t # <<>> /\ t[1] = x
  <2>1. 1 \in 1..Len(t)
    BY <1>3, <1>4
  <2>2. DOMAIN <<>> = {}
    BY EmptySeq
  <2> QED
    BY <1>2, <1>3, <1>4, <2>1, <2>2
<1> QED
  BY <1>5, <1>6, <1>7 DEF IsSequence, t

-----------------------------------------------------------------------------
(* The requests clients send.                                               *)

AreRequests(s) == IsSequence(s) /\ \A i \in DOMAIN s : IsRequest(s[i])

\* One request is a sequence of requests.
LEMMA OneRequest ==
    ASSUME NEW request, IsRequest(request)
    PROVE  AreRequests(<<request>>)
<1>1. DOMAIN <<request>> = {1} /\ <<request>>[1] = request
  OBVIOUS
<1>2. {<<request>>[i] : i \in DOMAIN <<request>>} = {request}
  BY <1>1
<1>3. <<request>> \in Seq({request})
  OBVIOUS
<1> QED
  BY <1>1, <1>2, <1>3 DEF AreRequests, IsSequence

\* A direct request of a valid patch.
LEMMA PatchIsRequest ==
    ASSUME NEW scope \in Scopes, NEW user \in Users, NEW patch \in Patches[scope],
           ValidPatch(scope, patch)
    PROVE  IsRequest(Request(scope, user, patch, DOMAIN patch, NoCleanup))
BY StoreAssumption DEF IsRequest, Request, NoCleanup

\* A form of a page that shows a policy.
LEMMA FormIsRequest ==
    ASSUME NEW scope \in Scopes, NEW user \in Users, NEW shown, IsPolicy(shown),
           NEW edits \in Patches[scope],
           ValidPatch(scope, FormPatch(scope, shown, edits)),
           NEW cleaned, cleaned.clubs \subseteq Clubs
    PROVE  IsRequest(Request(scope, user, FormPatch(scope, shown, edits), DOMAIN edits, cleaned))
<1> DEFINE patch == FormPatch(scope, shown, edits)
<1>1. IsPolicy(patch)
  BY FormIsPolicy, StoreAssumption
<1>2. DOMAIN edits \subseteq PolicyFields
  BY StoreAssumption
<1> QED
  BY <1>1, <1>2 DEF IsRequest, Request, IsPolicy

\* The requests that set an area of some clubs back to the default.
LEMMA InheritAreRequests ==
    ASSUME NEW user \in Users, NEW field \in Areas, NEW clubs \in CleanupLists
    PROVE  AreRequests(Inherit(user, field, clubs))
<1> DEFINE s == Inherit(user, field, clubs)
           S == {s[i] : i \in DOMAIN s}
<1>1. clubs \in Seq(Clubs)
  BY StoreAssumption
<1>2. Len(clubs) \in Nat /\ DOMAIN clubs = 1..Len(clubs)
  BY <1>1, LenProperties
<1>3. DOMAIN s = 1..Len(clubs)
  BY <1>2 DEF Inherit
<1>4. s \in [1..Len(clubs) -> S]
  BY <1>3 DEF Inherit
<1>5. s \in Seq(S)
  <2> HIDE DEF s, S
  <2> QED
    BY <1>2, <1>4
<1>6. ASSUME NEW i \in DOMAIN s
      PROVE  IsRequest(s[i])
  <2>1. clubs[i] \in Clubs
    BY <1>1, <1>3, <1>6, ElementOfSeq
  <2>2. clubs[i] \in Scopes /\ clubs[i] # Organization
    BY <2>1, StoreAssumption DEF Scopes
  <2>3. field \in PolicyFields
    BY StoreAssumption
  <2>4. s[i] = Request(clubs[i], user, [key \in {field} |-> Null], {field}, NoCleanup)
    BY <1>2, <1>3 DEF Inherit
  <2> QED
    BY <2>2, <2>3, <2>4 DEF IsRequest, Request, NoCleanup, ValidPatch, FieldValueOK
<1> QED
  BY <1>5, <1>6 DEF AreRequests, IsSequence

-----------------------------------------------------------------------------
(* The type invariant.                                                      *)

\* TypeOK says what the sequences hold; the induction also needs that they are
\* sequences and that the clients' functions are defined on the clients.
Shape ==
    /\ IsSequence(history)
    /\ \A c \in Clients : IsSequence(requests[c])
    /\ DOMAIN page = Clients
    /\ DOMAIN requests = Clients
    /\ DOMAIN transaction = Clients

TypeInv == TypeOK /\ Shape

LEMMA TypeInit == Init => TypeInv
<1> SUFFICES ASSUME Init
             PROVE  TypeInv
  OBVIOUS
<1>1. IsSequence(<<>>) /\ DOMAIN <<>> = {}
  BY EmptySeq DEF IsSequence
<1>2. /\ DOMAIN rows = Scopes
      /\ \A scope \in Scopes : IsRow(scope, rows[scope])
  BY StoreAssumption DEF Init
<1>3. \A c \in Clients : requests[c] = <<>> /\ page[c] = Nothing /\ transaction[c] = Nothing
  BY DEF Init
<1>4. history = <<>> /\ clock \in 0..MaxTransactions
  BY StoreAssumption DEF Init
<1>5. TypeOK
  BY <1>1, <1>2, <1>3, <1>4 DEF TypeOK
<1>6. Shape
  BY <1>1, <1>3, <1>4 DEF Init, Shape
<1> QED
  BY <1>5, <1>6 DEF TypeInv

\* What TypeOK says of one client, and of the history.
ClientOK(c) ==
    /\ \A i \in DOMAIN requests[c] : IsRequest(requests[c][i])
    /\ page[c] # Nothing => page[c].scope \in Scopes /\ IsPolicy(page[c].policy)
    /\ transaction[c] # Nothing =>
          /\ requests[c] # <<>>
          /\ transaction[c].begun \in 1..clock
          /\ transaction[c].previous # Nothing =>
                /\ IsPolicy(transaction[c].previous)
                /\ Head(requests[c]).scope = Organization =>
                      \A field \in BooleanFields : transaction[c].previous[field] # Null

HistoryOK ==
    \A i \in DOMAIN history :
        /\ history[i].scope \in Scopes
        /\ IsPolicy(history[i].previous) /\ IsPolicy(history[i].next)
        /\ history[i].begun \in 1..clock

LEMMA TypeParts ==
    TypeOK <=> /\ DOMAIN rows = Scopes
               /\ \A scope \in Scopes : IsRow(scope, rows[scope])
               /\ HistoryOK
               /\ \A c \in Clients : ClientOK(c)
               /\ clock \in 0..MaxTransactions
BY DEF TypeOK, HistoryOK, ClientOK

LEMMA TypePartsNext ==
    TypeOK' <=> /\ DOMAIN rows' = Scopes
                /\ \A scope \in Scopes : IsRow(scope, rows'[scope])
                /\ HistoryOK'
                /\ \A c \in Clients : ClientOK(c)'
                /\ clock' \in 0..MaxTransactions
BY DEF TypeOK, HistoryOK, ClientOK

\* Sending requests.
LEMMA SendKeepsType ==
    ASSUME TypeInv, NEW c \in Clients, NEW sequence, AreRequests(sequence), Send(c, sequence)
    PROVE  TypeInv'
<1>1. /\ requests[c] = <<>>
      /\ requests' = [requests EXCEPT ![c] = sequence]
      /\ page' = [page EXCEPT ![c] = Nothing]
      /\ UNCHANGED <<rows, history, transaction, clock>>
  BY DEF Send
<1>2. /\ \A d \in Clients \ {c} : requests'[d] = requests[d] /\ page'[d] = page[d]
      /\ requests'[c] = sequence /\ page'[c] = Nothing
      /\ DOMAIN requests' = Clients /\ DOMAIN page' = Clients
  BY <1>1 DEF TypeInv, Shape
<1>3. \A d \in Clients : ClientOK(d)
  BY TypeParts DEF TypeInv
<1>4. ASSUME NEW d \in Clients
      PROVE  ClientOK(d)'
  <2>1. CASE d = c
    <3>1. transaction[c] = Nothing
      BY <1>1, <1>3 DEF ClientOK
    <3> QED
      BY <1>1, <1>2, <2>1, <3>1 DEF ClientOK, AreRequests
  <2>2. CASE d # c
    BY <1>1, <1>2, <1>3, <2>2 DEF ClientOK
  <2> QED
    BY <2>1, <2>2
<1>5. TypeOK'
  <2>1. HistoryOK'
    BY <1>1, TypeParts DEF TypeInv, HistoryOK
  <2> QED
    BY <1>1, <1>4, <2>1, TypeParts, TypePartsNext DEF TypeInv
<1>6. Shape'
  BY <1>1, <1>2 DEF TypeInv, Shape, AreRequests
<1> QED
  BY <1>5, <1>6 DEF TypeInv

\* The actions.
LEMMA PostPatchType ==
    ASSUME TypeInv, NEW c \in Clients, NEW user \in Users, NEW scope \in Scopes,
           PostPatch(c, user, scope)
    PROVE  TypeInv'
<1>1. PICK patch \in Patches[scope] :
          /\ ValidPatch(scope, patch)
          /\ Send(c, <<Request(scope, user, patch, DOMAIN patch, NoCleanup)>>)
  BY DEF PostPatch
<1>2. AreRequests(<<Request(scope, user, patch, DOMAIN patch, NoCleanup)>>)
  BY <1>1, PatchIsRequest, OneRequest
<1> QED
  BY <1>1, <1>2, SendKeepsType

LEMMA OpenPageType ==
    ASSUME TypeInv, NEW c \in Clients, NEW scope \in Scopes, OpenPage(c, scope)
    PROVE  TypeInv'
<1> DEFINE shown == [scope |-> scope, policy |-> LoadedPolicy(scope, rows[scope])]
<1>1. /\ page' = [page EXCEPT ![c] = shown]
      /\ UNCHANGED <<rows, history, requests, transaction, clock>>
  BY DEF OpenPage
<1>2. IsPolicy(shown.policy) /\ shown.scope \in Scopes
  BY LoadedIsPolicy, TypeParts DEF TypeInv
<1> HIDE DEF shown
<1>3. /\ \A d \in Clients \ {c} : page'[d] = page[d]
      /\ page'[c] = shown
      /\ DOMAIN page' = Clients
  BY <1>1 DEF TypeInv, Shape
<1>4. ASSUME NEW d \in Clients
      PROVE  ClientOK(d)'
  <2>1. ClientOK(d)
    BY TypeParts DEF TypeInv
  <2> QED
    BY <1>1, <1>2, <1>3, <2>1 DEF ClientOK
<1>5. HistoryOK'
  BY <1>1, TypeParts DEF TypeInv, HistoryOK
<1> QED
  BY <1>1, <1>3, <1>4, <1>5, TypeParts, TypePartsNext DEF TypeInv, Shape

LEMMA SubmitFormType ==
    ASSUME TypeInv, NEW c \in Clients, NEW user \in Users, SubmitForm(c, user)
    PROVE  TypeInv'
<1> DEFINE scope == page[c].scope
           patch(edits) == FormPatch(scope, page[c].policy, edits)
           request(edits) == Request(scope, user, patch(edits), DOMAIN edits, NoCleanup)
<1>1. PICK edits \in Patches[scope] :
          /\ ValidPatch(scope, patch(edits))
          /\ Send(c, <<request(edits)>>)
  BY DEF SubmitForm
<1>2. scope \in Scopes /\ IsPolicy(page[c].policy)
  BY TypeParts DEF TypeInv, ClientOK, SubmitForm
<1>3. NoCleanup.clubs \subseteq Clubs
  BY DEF NoCleanup
<1>4. IsRequest(request(edits))
  BY <1>1, <1>2, <1>3, FormIsRequest
<1>5. AreRequests(<<request(edits)>>)
  <2> HIDE DEF request
  <2> QED
    BY <1>4, OneRequest
<1> QED
  BY <1>1, <1>5, SendKeepsType

LEMMA SaveWithCleanupType ==
    ASSUME TypeInv, NEW c \in Clients, NEW user \in Users, SaveWithCleanup(c, user)
    PROVE  TypeInv'
<1> DEFINE patch(edits) == FormPatch(Organization, page[c].policy, edits)
           cleaned(field, clubs) == [field |-> field, clubs |-> {clubs[i] : i \in DOMAIN clubs}]
           request(edits, field, clubs) ==
               Request(Organization, user, patch(edits), DOMAIN edits, cleaned(field, clubs))
<1>1. PICK edits \in Patches[Organization], clubs \in CleanupLists :
          /\ ValidPatch(Organization, patch(edits))
          /\ \E field \in Areas :
                Send(c, <<request(edits, field, clubs)>> \o Inherit(user, field, clubs))
  BY DEF SaveWithCleanup
<1>2. PICK field \in Areas :
          Send(c, <<request(edits, field, clubs)>> \o Inherit(user, field, clubs))
  BY <1>1
<1>3. Organization \in Scopes /\ IsPolicy(page[c].policy)
  BY TypeParts DEF TypeInv, ClientOK, SaveWithCleanup, Scopes
<1>4. cleaned(field, clubs).clubs \subseteq Clubs
  <2>1. clubs \in Seq(Clubs)
    BY StoreAssumption
  <2> QED
    BY <2>1, LenProperties, ElementOfSeq
<1>5. IsRequest(request(edits, field, clubs))
  <2> HIDE DEF cleaned
  <2> QED
    BY <1>1, <1>3, <1>4, FormIsRequest
<1> HIDE DEF request
<1>6. AreRequests(<<request(edits, field, clubs)>> \o Inherit(user, field, clubs))
  <2>1. AreRequests(Inherit(user, field, clubs))
    BY InheritAreRequests
  <2> QED
    BY <1>5, <2>1, ConsElements DEF AreRequests
<1> QED
  BY <1>2, <1>6, SendKeepsType

LEMMA InheritAreaType ==
    ASSUME TypeInv, NEW c \in Clients, NEW user \in Users, InheritArea(c, user)
    PROVE  TypeInv'
<1>1. PICK field \in Areas, clubs \in CleanupLists : Send(c, Inherit(user, field, clubs))
  BY DEF InheritArea
<1> QED
  BY <1>1, InheritAreRequests, SendKeepsType

\* The request a client is served is one of those it has to send.
LEMMA HeadIsRequest ==
    ASSUME TypeInv, NEW c \in Clients, requests[c] # <<>>
    PROVE  IsRequest(Head(requests[c]))
<1>1. IsSequence(requests[c]) /\ ClientOK(c)
  BY TypeParts DEF TypeInv, Shape
<1> QED
  BY <1>1, TailElements DEF ClientOK

LEMMA BeginType ==
    ASSUME TypeInv, NEW c \in Clients, Begin(c)
    PROVE  TypeInv'
<1>1. /\ requests[c] # <<>>
      /\ clock < MaxTransactions /\ clock' = clock + 1
      /\ transaction' = [transaction EXCEPT ![c] = [begun |-> clock', previous |-> Nothing]]
      /\ UNCHANGED <<rows, history, page, requests>>
  BY DEF Begin
<1>2. clock \in 0..MaxTransactions /\ MaxTransactions \in Nat
  BY TypeParts, StoreAssumption DEF TypeInv
<1>3. clock' \in 0..MaxTransactions /\ clock' \in 1..clock' /\ 1..clock \subseteq 1..clock'
  BY <1>1, <1>2
<1>4. /\ transaction'[c].begun = clock' /\ transaction'[c].previous = Nothing
      /\ \A d \in Clients \ {c} : transaction'[d] = transaction[d]
      /\ DOMAIN transaction' = Clients
  BY <1>1 DEF TypeInv, Shape
<1>5. ASSUME NEW d \in Clients
      PROVE  ClientOK(d)'
  <2>1. ClientOK(d)
    BY TypeParts DEF TypeInv
  <2>2. CASE d = c
    BY <1>1, <1>3, <1>4, <2>1, <2>2 DEF ClientOK
  <2>3. CASE d # c
    BY <1>1, <1>3, <1>4, <2>1, <2>3 DEF ClientOK
  <2> QED
    BY <2>2, <2>3
<1>6. HistoryOK'
  BY <1>1, <1>3, TypeParts DEF TypeInv, HistoryOK
<1>7. TypeOK'
  BY <1>1, <1>3, <1>5, <1>6, TypeParts, TypePartsNext DEF TypeInv
<1> QED
  BY <1>1, <1>4, <1>7 DEF TypeInv, Shape

LEMMA LoadType ==
    ASSUME TypeInv, NEW c \in Clients, Load(c)
    PROVE  TypeInv'
<1> DEFINE scope == Head(requests[c]).scope
           loaded == [begun |-> transaction[c].begun,
                      previous |-> LoadedPolicy(scope, rows[scope])]
<1>1. /\ transaction[c] # Nothing
      /\ transaction' = [transaction EXCEPT ![c] = loaded]
      /\ UNCHANGED <<rows, history, page, requests, clock>>
  BY DEF Load
<1>2. ClientOK(c)
  BY TypeParts DEF TypeInv
<1>3. scope \in Scopes
  BY <1>1, <1>2, HeadIsRequest DEF IsRequest, ClientOK
<1>4. /\ IsPolicy(loaded.previous)
      /\ scope = Organization => \A field \in BooleanFields : loaded.previous[field] # Null
      /\ loaded.begun \in 1..clock
  BY <1>1, <1>2, <1>3, LoadedIsPolicy, TypeParts DEF TypeInv, ClientOK
<1> HIDE DEF loaded
<1>5. /\ transaction'[c] = loaded
      /\ \A d \in Clients \ {c} : transaction'[d] = transaction[d]
      /\ DOMAIN transaction' = Clients
  BY <1>1 DEF TypeInv, Shape
<1>6. ASSUME NEW d \in Clients
      PROVE  ClientOK(d)'
  <2>1. ClientOK(d)
    BY TypeParts DEF TypeInv
  <2>2. CASE d = c
    BY <1>1, <1>4, <1>5, <2>1, <2>2 DEF ClientOK
  <2>3. CASE d # c
    BY <1>1, <1>5, <2>1, <2>3 DEF ClientOK
  <2> QED
    BY <2>2, <2>3
<1>7. HistoryOK'
  BY <1>1, TypeParts DEF TypeInv, HistoryOK
<1>8. TypeOK'
  BY <1>1, <1>6, <1>7, TypeParts, TypePartsNext DEF TypeInv
<1> QED
  BY <1>1, <1>5, <1>8 DEF TypeInv, Shape

LEMMA SaveType ==
    ASSUME TypeInv, NEW c \in Clients, Save(c)
    PROVE  TypeInv'
<1> DEFINE request == Head(requests[c])
           scope == request.scope
           previous == transaction[c].previous
           next == applyPatch(previous, request.patch)
           entry == [scope |-> scope, previous |-> previous, next |-> next,
                     begun |-> transaction[c].begun, cleaned |-> request.cleaned]
<1>1. /\ transaction[c] # Nothing /\ previous # Nothing
      /\ rows' = [rows EXCEPT ![scope] = StoredPolicy(next)]
      /\ history' = Append(history, entry)
      /\ transaction' = [transaction EXCEPT ![c] = Nothing]
      /\ requests' = [requests EXCEPT ![c] = Tail(requests[c])]
      /\ UNCHANGED <<page, clock>>
  BY DEF Save
<1>2. ClientOK(c) /\ HistoryOK /\ DOMAIN rows = Scopes
  BY TypeParts DEF TypeInv
<1>3. /\ requests[c] # <<>>
      /\ IsPolicy(previous)
      /\ scope = Organization => \A field \in BooleanFields : previous[field] # Null
      /\ transaction[c].begun \in 1..clock
  BY <1>1, <1>2 DEF ClientOK
<1>4. IsRequest(request)
  BY <1>3, HeadIsRequest
<1>5. IsPolicy(next)
  BY <1>3, <1>4, AppliedIsPolicy DEF IsRequest
<1>6. scope = Organization => \A field \in BooleanFields : next[field] # Null
  BY <1>3, <1>4, FieldKinds DEF IsRequest, ValidPatch, applyPatch
<1>7. IsRow(scope, StoredPolicy(next))
  <2> HIDE DEF next
  <2> QED
    BY <1>5, <1>6, StoredIsRow
<1>8. scope \in Scopes
  BY <1>4 DEF IsRequest
<1>9. /\ entry.scope \in Scopes
      /\ IsPolicy(entry.previous) /\ IsPolicy(entry.next)
      /\ entry.begun \in 1..clock
  BY <1>3, <1>5, <1>8
<1> HIDE DEF request, entry
<1>10. /\ DOMAIN rows' = Scopes
       /\ \A other \in Scopes : IsRow(other, rows'[other])
  BY <1>1, <1>2, <1>7, TypeParts DEF TypeInv
<1>11. HistoryOK' /\ IsSequence(history')
  <2>1. IsSequence(history)
    BY DEF TypeInv, Shape
  <2>2. /\ IsSequence(history')
        /\ DOMAIN history' = DOMAIN history \cup {Len(history) + 1}
        /\ \A i \in DOMAIN history : history'[i] = history[i]
        /\ history'[Len(history) + 1] = entry
    BY <1>1, <2>1, AppendElements
  <2> QED
    BY <1>1, <1>2, <1>9, <2>2 DEF HistoryOK
<1>12. /\ transaction'[c] = Nothing /\ requests'[c] = Tail(requests[c])
       /\ \A d \in Clients \ {c} :
             transaction'[d] = transaction[d] /\ requests'[d] = requests[d]
       /\ DOMAIN transaction' = Clients /\ DOMAIN requests' = Clients
  BY <1>1 DEF TypeInv, Shape
<1>13. AreRequests(Tail(requests[c]))
  <2>1. IsSequence(requests[c])
    BY DEF TypeInv, Shape
  <2> QED
    BY <1>2, <1>3, <2>1, TailElements DEF ClientOK, AreRequests
<1>14. ASSUME NEW d \in Clients
       PROVE  ClientOK(d)'
  <2>1. ClientOK(d)
    BY TypeParts DEF TypeInv
  <2>2. CASE d = c
    BY <1>1, <1>12, <1>13, <2>1, <2>2 DEF ClientOK, AreRequests
  <2>3. CASE d # c
    BY <1>1, <1>12, <2>1, <2>3 DEF ClientOK
  <2> QED
    BY <2>2, <2>3
<1>15. TypeOK'
  BY <1>1, <1>10, <1>11, <1>14, TypeParts, TypePartsNext DEF TypeInv
<1>16. Shape'
  BY <1>1, <1>11, <1>12, <1>13 DEF TypeInv, Shape, AreRequests
<1> QED
  BY <1>15, <1>16 DEF TypeInv

LEMMA FailType ==
    ASSUME TypeInv, NEW c \in Clients, Fail(c)
    PROVE  TypeInv'
<1>1. /\ requests' = [requests EXCEPT ![c] = <<>>]
      /\ transaction' = [transaction EXCEPT ![c] = Nothing]
      /\ UNCHANGED <<rows, history, page, clock>>
  BY DEF Fail
<1>2. IsSequence(<<>>) /\ DOMAIN <<>> = {}
  BY EmptySeq DEF IsSequence
<1>3. /\ transaction'[c] = Nothing /\ requests'[c] = <<>>
      /\ \A d \in Clients \ {c} :
            transaction'[d] = transaction[d] /\ requests'[d] = requests[d]
      /\ DOMAIN transaction' = Clients /\ DOMAIN requests' = Clients
  BY <1>1 DEF TypeInv, Shape
<1>4. ASSUME NEW d \in Clients
      PROVE  ClientOK(d)'
  <2>1. ClientOK(d)
    BY TypeParts DEF TypeInv
  <2> QED
    BY <1>1, <1>2, <1>3, <2>1 DEF ClientOK
<1>5. HistoryOK'
  BY <1>1, TypeParts DEF TypeInv, HistoryOK
<1>6. TypeOK'
  BY <1>1, <1>4, <1>5, TypeParts, TypePartsNext DEF TypeInv
<1> QED
  BY <1>1, <1>2, <1>3, <1>6 DEF TypeInv, Shape

LEMMA TypeStep == TypeInv /\ [Next]_vars => TypeInv'
<1> SUFFICES ASSUME TypeInv, [Next]_vars
             PROVE  TypeInv'
  OBVIOUS
<1>1. CASE Next
  <2>1. PICK c \in Clients :
           \/ \E user \in Users :
                 \/ \E scope \in Scopes : PostPatch(c, user, scope)
                 \/ SubmitForm(c, user)
                 \/ SaveWithCleanup(c, user)
                 \/ InheritArea(c, user)
           \/ \E scope \in Scopes : OpenPage(c, scope)
           \/ Begin(c)
           \/ Load(c)
           \/ Save(c)
           \/ Fail(c)
    BY <1>1 DEF Next
  <2>2. ASSUME NEW user \in Users, NEW scope \in Scopes, PostPatch(c, user, scope)
        PROVE  TypeInv'
    BY <2>2, PostPatchType
  <2>3. ASSUME NEW user \in Users, SubmitForm(c, user) \/ SaveWithCleanup(c, user)
                                     \/ InheritArea(c, user)
        PROVE  TypeInv'
    BY <2>3, SubmitFormType, SaveWithCleanupType, InheritAreaType
  <2>4. ASSUME NEW scope \in Scopes, OpenPage(c, scope)
        PROVE  TypeInv'
    BY <2>4, OpenPageType
  <2> QED
    BY <2>1, <2>2, <2>3, <2>4, BeginType, LoadType, SaveType, FailType
<1>2. CASE UNCHANGED vars
  <2>1. ASSUME NEW d \in Clients
        PROVE  ClientOK(d)'
    BY <1>2, TypeParts DEF TypeInv, vars, ClientOK
  <2>2. HistoryOK'
    BY <1>2, TypeParts DEF TypeInv, vars, HistoryOK
  <2>3. TypeOK'
    BY <1>2, <2>1, <2>2, TypeParts, TypePartsNext DEF TypeInv, vars
  <2> QED
    BY <1>2, <2>3 DEF TypeInv, Shape, vars
<1> QED
  BY <1>1, <1>2

\* Whatever valid patches are posted, by whom and in what order, every row keeps
\* to its table's constraints: the upsert of updateOrganizationWorkflowPolicy and
\* updateClubWorkflowPolicy never stores a NULL rule or a score of three decimals.
THEOREM TypeCorrect == Spec => []TypeOK
<1>1. TypeInv => TypeOK
  BY DEF TypeInv
<1> QED
  BY <1>1, TypeInit, TypeStep, PTL DEF Spec

-----------------------------------------------------------------------------
(* Every "before" of the history was in force once.                         *)

\* The policy is the bootstrap's for the scope, or what one of the entries left.
WasLeft(scope, policy, entries) ==
    \/ policy = LoadedPolicy(scope, FirstRows[scope])
    \/ \E j \in entries : history[j].scope = scope /\ policy = LoadedPolicy(scope, Left(j))

RowsWereLeft ==
    \A scope \in Scopes : WasLeft(scope, LoadedPolicy(scope, rows[scope]), DOMAIN history)

TransactionsReadWhatWasLeft ==
    \A c \in Clients :
        transaction[c] # Nothing /\ transaction[c].previous # Nothing =>
            WasLeft(Head(requests[c]).scope, transaction[c].previous, DOMAIN history)

BeforeInv ==
    /\ TypeInv
    /\ RowsWereLeft
    /\ TransactionsReadWhatWasLeft
    /\ BeforeWasInForce

LEMMA BeforeInit == Init => BeforeInv
<1> SUFFICES ASSUME Init
             PROVE  BeforeInv
  OBVIOUS
<1>1. TypeInv
  BY TypeInit
<1>2. RowsWereLeft
  BY DEF Init, RowsWereLeft, WasLeft
<1>3. TransactionsReadWhatWasLeft
  BY DEF Init, TransactionsReadWhatWasLeft
<1>4. DOMAIN history = {}
  BY EmptySeq DEF Init
<1>5. BeforeWasInForce
  BY <1>4 DEF BeforeWasInForce
<1> QED
  BY <1>1, <1>2, <1>3, <1>5 DEF BeforeInv

\* The steps that leave the rows and the history alone, and whose client has no
\* transaction afterwards that has read its row, unless it had it before.
LEMMA QuietStepKeepsBefore ==
    ASSUME BeforeInv, TypeInv', UNCHANGED <<rows, history>>,
           \A c \in Clients :
               \/ transaction'[c] = Nothing
               \/ transaction'[c].previous = Nothing
               \/ transaction'[c] = transaction[c] /\ requests'[c] = requests[c]
    PROVE  BeforeInv'
<1>1. RowsWereLeft' /\ BeforeWasInForce'
  BY DEF BeforeInv, RowsWereLeft, BeforeWasInForce, WasLeft, Left
<1>2. TransactionsReadWhatWasLeft'
  BY DEF BeforeInv, TransactionsReadWhatWasLeft, WasLeft, Left
<1> QED
  BY <1>1, <1>2 DEF BeforeInv

LEMMA SendKeepsBefore ==
    ASSUME BeforeInv, TypeInv', NEW c \in Clients, NEW sequence, Send(c, sequence)
    PROVE  BeforeInv'
<1>1. /\ requests[c] = <<>>
      /\ requests' = [requests EXCEPT ![c] = sequence]
      /\ UNCHANGED <<rows, history, transaction>>
  BY DEF Send
<1>2. transaction[c] = Nothing
  BY <1>1, TypeParts DEF BeforeInv, TypeInv, ClientOK
<1>3. DOMAIN requests = Clients
  BY DEF BeforeInv, TypeInv, Shape
<1>4. \A d \in Clients :
         \/ transaction'[d] = Nothing
         \/ transaction'[d] = transaction[d] /\ requests'[d] = requests[d]
  BY <1>1, <1>2, <1>3
<1>5. UNCHANGED <<rows, history>>
  BY <1>1
<1> QED
  BY <1>4, <1>5, QuietStepKeepsBefore

LEMMA BeginBefore ==
    ASSUME BeforeInv, TypeInv', NEW c \in Clients, Begin(c)
    PROVE  BeforeInv'
<1>1. /\ transaction' = [transaction EXCEPT ![c] = [begun |-> clock', previous |-> Nothing]]
      /\ UNCHANGED requests
  BY DEF Begin
<1>2. DOMAIN transaction = Clients
  BY DEF BeforeInv, TypeInv, Shape
<1>3. \A d \in Clients :
         \/ transaction'[d].previous = Nothing
         \/ transaction'[d] = transaction[d] /\ requests'[d] = requests[d]
  BY <1>1, <1>2
<1>4. UNCHANGED <<rows, history>>
  BY DEF Begin
<1> QED
  BY <1>3, <1>4, QuietStepKeepsBefore

LEMMA LoadBefore ==
    ASSUME BeforeInv, TypeInv', NEW c \in Clients, Load(c)
    PROVE  BeforeInv'
<1> DEFINE scope == Head(requests[c]).scope
           loaded == [begun |-> transaction[c].begun,
                      previous |-> LoadedPolicy(scope, rows[scope])]
<1>1. /\ requests[c] # <<>>
      /\ transaction' = [transaction EXCEPT ![c] = loaded]
      /\ UNCHANGED <<rows, history, requests>>
  BY TypeParts DEF Load, BeforeInv, TypeInv, ClientOK
<1>2. scope \in Scopes
  BY <1>1, HeadIsRequest DEF IsRequest, BeforeInv
<1>3. WasLeft(scope, loaded.previous, DOMAIN history)
  BY <1>2 DEF BeforeInv, RowsWereLeft
<1> HIDE DEF loaded
<1>4. /\ transaction'[c] = loaded
      /\ \A d \in Clients \ {c} : transaction'[d] = transaction[d]
  BY <1>1 DEF BeforeInv, TypeInv, Shape
<1>5. TransactionsReadWhatWasLeft'
  <2> SUFFICES ASSUME NEW d \in Clients,
                      transaction'[d] # Nothing, transaction'[d].previous # Nothing
               PROVE  WasLeft(Head(requests[d]).scope, transaction[d].previous, DOMAIN history)'
    BY DEF TransactionsReadWhatWasLeft
  <2>1. WasLeft(Head(requests[d]).scope, transaction'[d].previous, DOMAIN history)
    BY <1>3, <1>4 DEF BeforeInv, TransactionsReadWhatWasLeft
  <2> QED
    BY <1>1, <2>1 DEF WasLeft, Left
<1>6. RowsWereLeft' /\ BeforeWasInForce'
  BY <1>1 DEF BeforeInv, RowsWereLeft, BeforeWasInForce, WasLeft, Left
<1> QED
  BY <1>5, <1>6 DEF BeforeInv

LEMMA SaveBefore ==
    ASSUME BeforeInv, TypeInv', NEW c \in Clients, Save(c)
    PROVE  BeforeInv'
<1> DEFINE request == Head(requests[c])
           scope == request.scope
           next == applyPatch(transaction[c].previous, request.patch)
           entry == [scope |-> scope, previous |-> transaction[c].previous, next |-> next,
                     begun |-> transaction[c].begun, cleaned |-> request.cleaned]
           last == Len(history) + 1
<1>1. /\ transaction[c] # Nothing /\ transaction[c].previous # Nothing
      /\ rows' = [rows EXCEPT ![scope] = StoredPolicy(next)]
      /\ history' = Append(history, entry)
      /\ transaction' = [transaction EXCEPT ![c] = Nothing]
      /\ requests' = [requests EXCEPT ![c] = Tail(requests[c])]
  BY DEF Save
<1>2. TypeInv
  BY DEF BeforeInv
<1>3. requests[c] # <<>> /\ DOMAIN rows = Scopes
  BY <1>1, <1>2, TypeParts DEF TypeInv, ClientOK
<1>4. scope \in Scopes
  BY <1>2, <1>3, HeadIsRequest DEF IsRequest
<1>5. WasLeft(scope, entry.previous, DOMAIN history)
  BY <1>1 DEF BeforeInv, TransactionsReadWhatWasLeft
<1>6. entry.scope = scope /\ entry.next = next
  OBVIOUS
<1> HIDE DEF entry, next, request
<1>7. /\ DOMAIN history' = DOMAIN history \cup {last}
      /\ DOMAIN history = 1..Len(history) /\ Len(history) \in Nat
      /\ \A i \in DOMAIN history : history'[i] = history[i]
      /\ history'[last] = entry
  BY <1>1, <1>2, AppendElements DEF TypeInv, Shape
\* What was left stays left.
<1>8. ASSUME NEW other, NEW policy, NEW entries \in SUBSET DOMAIN history,
             WasLeft(other, policy, entries)
      PROVE  \/ policy = LoadedPolicy(other, FirstRows[other])
             \/ \E j \in entries : /\ history'[j].scope = other
                                   /\ policy = LoadedPolicy(other, StoredPolicy(history'[j].next))
  BY <1>7, <1>8 DEF WasLeft, Left
<1>9. RowsWereLeft'
  <2> SUFFICES ASSUME NEW other \in Scopes
               PROVE  \/ LoadedPolicy(other, rows'[other]) = LoadedPolicy(other, FirstRows[other])
                      \/ \E j \in DOMAIN history' :
                            /\ history'[j].scope = other
                            /\ LoadedPolicy(other, rows'[other])
                                 = LoadedPolicy(other, StoredPolicy(history'[j].next))
    BY DEF RowsWereLeft, WasLeft, Left
  <2>1. CASE other = scope
    <3>1. rows'[other] = StoredPolicy(next)
      BY <1>1, <1>3, <1>4, <2>1
    <3> QED
      BY <1>6, <1>7, <2>1, <3>1
  <2>2. CASE other # scope
    <3>1. rows'[other] = rows[other]
      BY <1>1, <1>3, <2>2
    <3>2. WasLeft(other, LoadedPolicy(other, rows[other]), DOMAIN history)
      BY DEF BeforeInv, RowsWereLeft
    <3>3. \/ LoadedPolicy(other, rows[other]) = LoadedPolicy(other, FirstRows[other])
          \/ \E j \in DOMAIN history :
                /\ history'[j].scope = other
                /\ LoadedPolicy(other, rows[other])
                     = LoadedPolicy(other, StoredPolicy(history'[j].next))
      BY <1>8, <3>2
    <3> QED
      BY <1>7, <3>1, <3>3
  <2> QED
    BY <2>1, <2>2
<1>10. TransactionsReadWhatWasLeft'
  <2> SUFFICES ASSUME NEW d \in Clients,
                      transaction'[d] # Nothing, transaction'[d].previous # Nothing
               PROVE  WasLeft(Head(requests[d]).scope, transaction[d].previous, DOMAIN history)'
    <3>1. \A d \in Clients : transaction'[d] # Nothing => d # c
      BY <1>1, <1>2 DEF TypeInv, Shape
    <3>2. \A d \in Clients \ {c} : transaction'[d] = transaction[d] /\ requests'[d] = requests[d]
      BY <1>1, <1>2 DEF TypeInv, Shape
    <3> QED
      BY <3>1, <3>2 DEF TransactionsReadWhatWasLeft
  <2>1. d # c /\ transaction'[d] = transaction[d] /\ requests'[d] = requests[d]
    BY <1>1, <1>2 DEF TypeInv, Shape
  <2>2. WasLeft(Head(requests[d]).scope, transaction[d].previous, DOMAIN history)
    BY <2>1 DEF BeforeInv, TransactionsReadWhatWasLeft
  <2> QED
    BY <1>7, <1>8, <2>1, <2>2 DEF WasLeft, Left
<1>11. BeforeWasInForce'
  <2> SUFFICES ASSUME NEW i \in DOMAIN history'
               PROVE  LET other == history'[i].scope
                      IN  \/ history'[i].previous = LoadedPolicy(other, FirstRows[other])
                          \/ \E j \in 1..(i - 1) :
                                /\ history'[j].scope = other
                                /\ history'[i].previous
                                     = LoadedPolicy(other, StoredPolicy(history'[j].next))
    BY DEF BeforeWasInForce, Left
  <2>1. CASE i \in DOMAIN history
    <3> DEFINE other == history[i].scope
               policy == history[i].previous
               entries == 1..(i - 1)
    <3>1. history'[i] = history[i] /\ entries \in SUBSET DOMAIN history
      BY <1>7, <2>1
    <3>2. WasLeft(other, policy, entries)
      BY <2>1 DEF BeforeInv, BeforeWasInForce, WasLeft
    <3>3. \/ policy = LoadedPolicy(other, FirstRows[other])
          \/ \E j \in entries : /\ history'[j].scope = other
                                /\ policy = LoadedPolicy(other, StoredPolicy(history'[j].next))
      <4> HIDE DEF other, policy, entries
      <4> QED
        BY <1>8, <3>1, <3>2
    <3> QED
      BY <3>1, <3>3
  <2>2. CASE i = last
    <3>1. DOMAIN history \subseteq 1..(i - 1) /\ history'[i] = entry
      BY <1>7, <2>2
    <3>2. \/ entry.previous = LoadedPolicy(scope, FirstRows[scope])
          \/ \E j \in DOMAIN history :
                /\ history'[j].scope = scope
                /\ entry.previous = LoadedPolicy(scope, StoredPolicy(history'[j].next))
      BY <1>5, <1>8
    <3>3. \/ entry.previous = LoadedPolicy(scope, FirstRows[scope])
          \/ \E j \in 1..(i - 1) :
                /\ history'[j].scope = scope
                /\ entry.previous = LoadedPolicy(scope, StoredPolicy(history'[j].next))
      BY <3>1, <3>2
    <3> QED
      BY <1>6, <3>1, <3>3
  <2> QED
    BY <1>7, <2>1, <2>2
<1> QED
  BY <1>9, <1>10, <1>11 DEF BeforeInv

LEMMA BeforeStep == BeforeInv /\ [Next]_vars => BeforeInv'
<1> SUFFICES ASSUME BeforeInv, [Next]_vars
             PROVE  BeforeInv'
  OBVIOUS
<1>1. TypeInv'
  BY TypeStep DEF BeforeInv
<1>2. CASE Next
  <2>1. PICK c \in Clients :
           \/ \E user \in Users :
                 \/ \E scope \in Scopes : PostPatch(c, user, scope)
                 \/ SubmitForm(c, user)
                 \/ SaveWithCleanup(c, user)
                 \/ InheritArea(c, user)
           \/ \E scope \in Scopes : OpenPage(c, scope)
           \/ Begin(c)
           \/ Load(c)
           \/ Save(c)
           \/ Fail(c)
    BY <1>2 DEF Next
  <2>2. ASSUME NEW user \in Users,
               \/ \E scope \in Scopes : PostPatch(c, user, scope)
               \/ SubmitForm(c, user)
               \/ SaveWithCleanup(c, user)
               \/ InheritArea(c, user)
        PROVE  BeforeInv'
    <3>1. \E sequence : Send(c, sequence)
      BY <2>2 DEF PostPatch, SubmitForm, SaveWithCleanup, InheritArea
    <3> QED
      BY <1>1, <3>1, SendKeepsBefore
  <2>3. ASSUME NEW scope \in Scopes, OpenPage(c, scope)
        PROVE  BeforeInv'
    <3>1. UNCHANGED <<rows, history>> /\ UNCHANGED <<requests, transaction>>
      BY <2>3 DEF OpenPage
    <3> QED
      BY <1>1, <3>1, QuietStepKeepsBefore
  <2>4. CASE Fail(c)
    <3>1. /\ transaction' = [transaction EXCEPT ![c] = Nothing]
          /\ requests' = [requests EXCEPT ![c] = <<>>]
          /\ UNCHANGED <<rows, history>>
      BY <2>4 DEF Fail
    <3>2. DOMAIN transaction = Clients /\ DOMAIN requests = Clients
      BY DEF BeforeInv, TypeInv, Shape
    <3>3. \A d \in Clients :
             \/ transaction'[d] = Nothing
             \/ transaction'[d] = transaction[d] /\ requests'[d] = requests[d]
      BY <3>1, <3>2
    <3> QED
      BY <1>1, <3>1, <3>3, QuietStepKeepsBefore
  <2> QED
    BY <1>1, <2>1, <2>2, <2>3, <2>4, BeginBefore, LoadBefore, SaveBefore
<1>3. CASE UNCHANGED vars
  <2>1. UNCHANGED <<rows, history>> /\ UNCHANGED <<requests, transaction>>
    BY <1>3 DEF vars
  <2> QED
    BY <1>1, <2>1, QuietStepKeepsBefore
<1> QED
  BY <1>2, <1>3

\* The "before" of a history entry, read without a lock by a transaction that may
\* have been overtaken, is never a policy nobody saved: it is the bootstrap's or
\* what an earlier entry left.
THEOREM BeforeWasInForceAlways == Spec => []BeforeWasInForce
<1>1. BeforeInv => BeforeWasInForce
  BY DEF BeforeInv
<1> QED
  BY <1>1, BeforeInit, BeforeStep, PTL DEF Spec

-----------------------------------------------------------------------------
(* One session: the history is a chain.                                     *)

OneSession == \E c : Clients = {c}

\* What a transaction has read is still in force, and it began after every entry.
SessionInv ==
    /\ BeforeInv
    /\ HistoryExplains
    /\ \A c \in Clients :
          transaction[c] # Nothing =>
             /\ \A i \in DOMAIN history : history[i].begun < transaction[c].begun
             /\ transaction[c].previous # Nothing =>
                   transaction[c].previous = LoadedPolicy(Head(requests[c]).scope,
                                                          rows[Head(requests[c]).scope])

\* Entries are numbered.
LEMMA BegunAreNumbers ==
    ASSUME TypeInv
    PROVE  /\ \A i \in DOMAIN history : history[i].begun \in 1..clock
           /\ \A c \in Clients : transaction[c] # Nothing => transaction[c].begun \in 1..clock
           /\ clock \in Nat
<1>1. MaxTransactions \in Nat
  BY StoreAssumption
<1> QED
  BY <1>1, TypeParts DEF TypeInv, HistoryOK, ClientOK

\* Steps that leave rows and history alone and open no transaction that has read.
LEMMA QuietStepKeepsSession ==
    ASSUME SessionInv, BeforeInv', UNCHANGED <<rows, history>>,
           \A c \in Clients :
               \/ transaction'[c] = Nothing
               \/ transaction'[c] = transaction[c] /\ requests'[c] = requests[c]
    PROVE  SessionInv'
<1>1. HistoryExplains'
  BY DEF SessionInv, HistoryExplains, EntriesOf, Left
<1> QED
  BY <1>1 DEF SessionInv

\* A transaction begins with a number above all entries', and reads what is in force.
LEMMA BeginAndLoadKeepSession ==
    ASSUME SessionInv, BeforeInv', NEW c \in Clients, Begin(c) \/ Load(c)
    PROVE  SessionInv'
<1>1. UNCHANGED <<rows, history, requests>>
  BY DEF Begin, Load
<1>2. HistoryExplains'
  BY <1>1 DEF SessionInv, HistoryExplains, EntriesOf, Left
<1>3. DOMAIN transaction = Clients /\ TypeInv
  BY DEF SessionInv, BeforeInv, TypeInv, Shape
<1>4. ASSUME NEW d \in Clients, transaction'[d] # Nothing
      PROVE  /\ \A i \in DOMAIN history : history[i].begun < transaction'[d].begun
             /\ transaction'[d].previous # Nothing =>
                   transaction'[d].previous = LoadedPolicy(Head(requests[d]).scope,
                                                           rows[Head(requests[d]).scope])
  <2>1. CASE d # c
    <3>1. transaction'[d] = transaction[d]
      BY <1>3, <2>1 DEF Begin, Load
    <3> QED
      BY <1>4, <3>1 DEF SessionInv
  <2>2. CASE d = c /\ Begin(c)
    <3>1. transaction'[d] = [begun |-> clock + 1, previous |-> Nothing]
      BY <1>3, <2>2 DEF Begin
    <3>2. \A i \in DOMAIN history : history[i].begun < clock + 1
      BY <1>3, BegunAreNumbers
    <3> QED
      BY <3>1, <3>2
  <2>3. CASE d = c /\ Load(c)
    <3> DEFINE read == LoadedPolicy(Head(requests[d]).scope, rows[Head(requests[d]).scope])
    <3>1. /\ transaction[d] # Nothing
          /\ transaction' = [transaction EXCEPT ![d] = [begun |-> transaction[d].begun,
                                                        previous |-> read]]
      BY <2>3 DEF Load
    <3> HIDE DEF read
    <3>2. /\ transaction'[d].begun = transaction[d].begun
          /\ transaction'[d].previous = read
      BY <1>3, <3>1
    <3> QED
      BY <3>1, <3>2 DEF SessionInv, read
  <2> QED
    BY <2>1, <2>2, <2>3
<1> QED
  BY <1>1, <1>2, <1>4 DEF SessionInv

\* The new entry is newest, its "before" is what the one below it left, its "after"
\* is in force.
LEMMA SaveKeepsSession ==
    ASSUME OneSession, SessionInv, BeforeInv', NEW c \in Clients, Save(c)
    PROVE  SessionInv'
<1> DEFINE request == Head(requests[c])
           scope == request.scope
           next == applyPatch(transaction[c].previous, request.patch)
           entry == [scope |-> scope, previous |-> transaction[c].previous, next |-> next,
                     begun |-> transaction[c].begun, cleaned |-> request.cleaned]
           last == Len(history) + 1
<1>1. /\ transaction[c] # Nothing /\ transaction[c].previous # Nothing
      /\ rows' = [rows EXCEPT ![scope] = StoredPolicy(next)]
      /\ history' = Append(history, entry)
      /\ transaction' = [transaction EXCEPT ![c] = Nothing]
  BY DEF Save
<1>2. TypeInv
  BY DEF SessionInv, BeforeInv
<1>3. requests[c] # <<>> /\ DOMAIN rows = Scopes /\ DOMAIN transaction = Clients
  BY <1>1, <1>2, TypeParts DEF TypeInv, ClientOK, Shape
<1>4. scope \in Scopes
  BY <1>2, <1>3, HeadIsRequest DEF IsRequest
<1>5. /\ entry.previous = LoadedPolicy(scope, rows[scope])
      /\ \A i \in DOMAIN history : history[i].begun < entry.begun
      /\ entry.begun \in Nat
      /\ \A i \in DOMAIN history : history[i].begun \in Nat
  BY <1>1, <1>2, BegunAreNumbers DEF SessionInv
<1>6. entry.scope = scope /\ entry.next = next
  OBVIOUS
<1> HIDE DEF entry, next, request
<1>7. /\ DOMAIN history' = DOMAIN history \cup {last}
      /\ last \notin DOMAIN history
      /\ \A i \in DOMAIN history : history'[i] = history[i]
      /\ history'[last] = entry
  BY <1>1, <1>2, AppendElements DEF TypeInv, Shape
<1>8. /\ rows'[scope] = StoredPolicy(next)
      /\ \A other \in Scopes \ {scope} : rows'[other] = rows[other]
  BY <1>1, <1>3, <1>4
<1>9. \A d \in Clients : transaction'[d] = Nothing
  BY <1>1, <1>3 DEF OneSession
<1>10. HistoryExplains'
  <2> DEFINE Of(other) == {i \in DOMAIN history : history[i].scope = other}
             Newer(other, i) == {j \in Of(other) : history[j].begun > history[i].begun}
             OfNow(other) == {i \in DOMAIN history' : history'[i].scope = other}
             NewerNow(other, i) == {j \in OfNow(other) : history'[j].begun > history'[i].begun}
  <2>1. \A other \in Scopes : \A i \in Of(other) :
           /\ Newer(other, i) = {} => rows[other] = StoredPolicy(history[i].next)
           /\ \A j \in Newer(other, i) :
                 (\A k \in Newer(other, i) : history[j].begun <= history[k].begun) =>
                     history[j].previous = LoadedPolicy(other, StoredPolicy(history[i].next))
    BY DEF SessionInv, HistoryExplains, EntriesOf, Left
  <2> SUFFICES ASSUME NEW other \in Scopes, NEW i \in OfNow(other)
               PROVE  /\ NewerNow(other, i) = {} =>
                            rows'[other] = StoredPolicy(history'[i].next)
                      /\ \A j \in NewerNow(other, i) :
                            (\A k \in NewerNow(other, i) :
                                 history'[j].begun <= history'[k].begun) =>
                                history'[j].previous =
                                    LoadedPolicy(other, StoredPolicy(history'[i].next))
    BY DEF HistoryExplains, EntriesOf, Left
  <2>2. CASE other # scope
    <3>1. OfNow(other) = Of(other)
      BY <1>6, <1>7, <2>2
    <3>2. i \in Of(other) /\ NewerNow(other, i) = Newer(other, i)
      BY <1>7, <3>1
    <3> QED
      BY <1>7, <1>8, <2>1, <2>2, <3>2
  <2>3. CASE other = scope /\ i = last
    <3>1. NewerNow(other, i) = {}
      BY <1>5, <1>7, <2>3
    <3> QED
      BY <1>6, <1>7, <1>8, <2>3, <3>1
  <2>4. CASE other = scope /\ i # last
    <3>1. i \in Of(other) /\ history'[i] = history[i]
      BY <1>7, <2>4
    <3>2. NewerNow(other, i) = Newer(other, i) \cup {last}
      BY <1>5, <1>6, <1>7, <2>4, <3>1
    <3>3. CASE Newer(other, i) = {}
      <4>1. entry.previous = LoadedPolicy(other, StoredPolicy(history[i].next))
        BY <1>5, <2>1, <2>4, <3>1, <3>3
      <4>2. NewerNow(other, i) = {last}
        BY <3>2, <3>3
      <4> QED
        BY <1>7, <3>1, <4>1, <4>2
    <3>4. CASE Newer(other, i) # {}
      <4>1. SUFFICES ASSUME NEW j \in NewerNow(other, i),
                            \A k \in NewerNow(other, i) :
                                history'[j].begun <= history'[k].begun
                     PROVE  history'[j].previous =
                                LoadedPolicy(other, StoredPolicy(history[i].next))
        BY <3>1, <3>2
      <4>2. PICK k \in Newer(other, i) : TRUE
        BY <3>4
      <4>3. history[k].begun < entry.begun /\ k \in DOMAIN history
        BY <1>5
      <4>4. j # last
        BY <1>5, <1>7, <3>2, <4>1, <4>3
      <4>5. /\ j \in Newer(other, i)
            /\ \A m \in Newer(other, i) : history[j].begun <= history[m].begun
        BY <1>7, <3>2, <4>1, <4>4
      <4>6. history[j].previous = LoadedPolicy(other, StoredPolicy(history[i].next))
        BY <2>1, <3>1, <4>5
      <4> QED
        BY <1>7, <4>5, <4>6
    <3> QED
      BY <3>3, <3>4
  <2> QED
    BY <2>2, <2>3, <2>4
<1> QED
  BY <1>9, <1>10 DEF SessionInv

LEMMA SessionStep == OneSession /\ SessionInv /\ [Next]_vars => SessionInv'
<1> SUFFICES ASSUME OneSession, SessionInv, [Next]_vars
             PROVE  SessionInv'
  OBVIOUS
<1>1. BeforeInv'
  BY BeforeStep DEF SessionInv
<1>2. DOMAIN transaction = Clients /\ DOMAIN requests = Clients
  BY DEF SessionInv, BeforeInv, TypeInv, Shape
<1>3. CASE Next
  <2>1. PICK c \in Clients :
           \/ \E user \in Users :
                 \/ \E scope \in Scopes : PostPatch(c, user, scope)
                 \/ SubmitForm(c, user)
                 \/ SaveWithCleanup(c, user)
                 \/ InheritArea(c, user)
           \/ \E scope \in Scopes : OpenPage(c, scope)
           \/ Begin(c)
           \/ Load(c)
           \/ Save(c)
           \/ Fail(c)
    BY <1>3 DEF Next
  <2>2. ASSUME NEW sequence, Send(c, sequence)
        PROVE  SessionInv'
    <3>1. transaction[c] = Nothing
      BY <2>2, TypeParts DEF Send, SessionInv, BeforeInv, TypeInv, ClientOK
    <3>2. \A d \in Clients :
             \/ transaction'[d] = Nothing
             \/ transaction'[d] = transaction[d] /\ requests'[d] = requests[d]
      BY <1>2, <2>2, <3>1 DEF Send
    <3> QED
      BY <1>1, <2>2, <3>2, QuietStepKeepsSession DEF Send
  <2>3. ASSUME NEW user \in Users,
               \/ \E scope \in Scopes : PostPatch(c, user, scope)
               \/ SubmitForm(c, user)
               \/ SaveWithCleanup(c, user)
               \/ InheritArea(c, user)
        PROVE  SessionInv'
    <3>1. \E sequence : Send(c, sequence)
      BY <2>3 DEF PostPatch, SubmitForm, SaveWithCleanup, InheritArea
    <3> QED
      BY <2>2, <3>1
  <2>4. ASSUME NEW scope \in Scopes, OpenPage(c, scope)
        PROVE  SessionInv'
    BY <1>1, <2>4, QuietStepKeepsSession DEF OpenPage
  <2>5. CASE Fail(c)
    <3>1. \A d \in Clients :
             \/ transaction'[d] = Nothing
             \/ transaction'[d] = transaction[d] /\ requests'[d] = requests[d]
      BY <1>2, <2>5 DEF Fail
    <3> QED
      BY <1>1, <2>5, <3>1, QuietStepKeepsSession DEF Fail
  <2>6. CASE Begin(c) \/ Load(c)
    BY <1>1, <2>6, BeginAndLoadKeepSession
  <2>7. CASE Save(c)
    BY <1>1, <2>7, SaveKeepsSession
  <2> QED
    BY <2>1, <2>3, <2>4, <2>5, <2>6, <2>7
<1>4. CASE UNCHANGED vars
  BY <1>1, <1>4, QuietStepKeepsSession DEF vars
<1> QED
  BY <1>3, <1>4

LEMMA SessionInit == Init => SessionInv
<1> SUFFICES ASSUME Init
             PROVE  SessionInv
  OBVIOUS
<1>1. BeforeInv /\ DOMAIN history = {}
  BY BeforeInit, EmptySeq DEF Init
<1>2. \A c \in Clients : transaction[c] = Nothing
  BY DEF Init
<1> QED
  BY <1>1, <1>2 DEF SessionInv, HistoryExplains, EntriesOf

\* With one session the history page reads as a chain, whatever is refused, fails or
\* is lost between the session's requests.
THEOREM HistoryAlwaysExplains ==
    ASSUME OneSession
    PROVE  Spec => []HistoryExplains
<1>1. Init => SessionInv
  BY SessionInit
<1>2. SessionInv /\ [Next]_vars => SessionInv'
  BY SessionStep
<1>3. SessionInv => HistoryExplains
  BY DEF SessionInv
<1> QED
  BY <1>1, <1>2, <1>3, PTL DEF Spec

-----------------------------------------------------------------------------
(* One session: a save changes only what it was asked to.                   *)

\* A policy, or a patch, whose rules the form does not change.
FormKeeps(policy) ==
    \A field \in DOMAIN policy \cap RuleFields :
        policy[field] = Null \/ FormRule(policy[field]) = policy[field]

\* What a request sends unasked is what its row holds.
SendsTheRest(request) ==
    \A field \in DOMAIN request.patch \ request.asked :
        StoredPolicy(request.patch)[field] = rows[request.scope][field]

\* Of the requests still to send, only the first may send fields unasked.
RequestsAsk(s) ==
    \A i \in DOMAIN s :
        /\ FormKeeps(s[i].patch)
        /\ i = 1 => SendsTheRest(s[i])
        /\ i # 1 => DOMAIN s[i].patch \subseteq s[i].asked

\* An open page shows what is stored.
PageIsFresh(c) ==
    page[c] # Nothing =>
        /\ requests[c] = <<>>
        /\ page[c].policy = LoadedPolicy(page[c].scope, rows[page[c].scope])

AskedInv ==
    /\ SessionInv
    /\ \A scope \in Scopes : FormKeeps(rows[scope])
    /\ \A c \in Clients : PageIsFresh(c) /\ RequestsAsk(requests[c])

\* A rule left blank stays blank.
LEMMA BlankRule == FormRule(EmptyObject) = EmptyObject
<1>1. DOMAIN EmptyObject = {}
  BY DEF EmptyObject
<1>2. Field(EmptyObject, "eventChannels", EmptyObject) = EmptyObject
  BY <1>1 DEF Field
<1>3. \A f : DOMAIN f = {} /\ f = [x \in DOMAIN f |-> f[x]] => f = EmptyObject
  BY DEF EmptyObject
<1>4. [event \in DOMAIN Field(EmptyObject, "eventChannels", EmptyObject) \cap FormEvents |->
          EmptyObject["eventChannels"][event]] = EmptyObject
  BY <1>1, <1>2 DEF EmptyObject
<1> QED
  BY <1>1, <1>4 DEF FormRule, EmptyObject

\* The form of a page that shows what is stored sends it back where nothing is edited,
\* and rules it has inputs for.
LEMMA FormSendsTheRest ==
    ASSUME NEW scope \in Scopes, NEW row, IsRow(scope, row), FormKeeps(row),
           NEW edits \in Patches[scope], FormShowsRules
    PROVE  LET patch == FormPatch(scope, LoadedPolicy(scope, row), edits)
           IN  /\ \A field \in DOMAIN patch \ DOMAIN edits :
                     StoredPolicy(patch)[field] = row[field]
               /\ FormKeeps(patch)
<1> DEFINE shown == LoadedPolicy(scope, row)
           edited == applyPatch(shown, edits)
           patch == FormPatch(scope, shown, edits)
<1>1. DOMAIN patch = PolicyFields /\ DOMAIN row = PolicyFields
  BY DEF FormPatch, IsRow, IsPolicy
<1>2. \A field \in PolicyFields :
          /\ patch[field] = FormValue(scope, field, edited[field])
          /\ field \in DOMAIN edits => edited[field] = edits[field]
          /\ field \notin DOMAIN edits => edited[field] = shown[field]
  BY DEF FormPatch, applyPatch
<1> HIDE DEF patch, edited
<1>3. \A field \in RuleFields :
          /\ row[field] # Null /\ FormRule(row[field]) = row[field]
          /\ shown[field] = IF scope # Organization /\ row[field] = EmptyObject
                            THEN Null ELSE row[field]
  BY <1>1, FieldKinds DEF IsRow, FormKeeps, LoadedPolicy, parseOverrideJson
<1>4. ASSUME NEW field \in PolicyFields, field \notin DOMAIN edits
      PROVE  StoredPolicy(patch)[field] = row[field]
  <2>1. edited[field] = shown[field]
    BY <1>2, <1>4
  <2>2. CASE field \notin RuleFields
    <3>1. patch[field] = shown[field]
      BY <1>2, <2>1, <2>2 DEF FormValue
    <3> QED
      BY <3>1, LoadedIsStored
  <2>3. CASE field \in RuleFields
    <3>1. patch[field] = shown[field]
      BY <1>2, <1>3, <2>1, <2>3, BlankRule DEF FormValue
    <3> QED
      BY <3>1, LoadedIsStored
  <2> QED
    BY <2>2, <2>3
<1>5. ASSUME NEW field \in RuleFields
      PROVE  patch[field] = Null \/ FormRule(patch[field]) = patch[field]
  <2>1. field \in PolicyFields
    BY FieldKinds
  <2>2. edited[field] = Null \/ FormRule(edited[field]) = edited[field]
    BY <1>2, <1>3, <2>1 DEF FormShowsRules
  <2> QED
    BY <1>2, <2>1, <2>2, BlankRule DEF FormValue
<1> QED
  BY <1>1, <1>4, <1>5 DEF FormKeeps, patch

\* One request.
LEMMA OneRequestAsks ==
    ASSUME NEW request, FormKeeps(request.patch), SendsTheRest(request)
    PROVE  RequestsAsk(<<request>>)
<1>1. DOMAIN <<request>> = {1} /\ <<request>>[1] = request
  OBVIOUS
<1> QED
  BY <1>1 DEF RequestsAsk

\* Clubs set back to the default are asked for all they send.
LEMMA InheritAsks ==
    ASSUME NEW user, NEW field \in Areas, NEW clubs \in CleanupLists
    PROVE  LET s == Inherit(user, field, clubs)
           IN  /\ RequestsAsk(s)
               /\ \A i \in DOMAIN s : /\ FormKeeps(s[i].patch)
                                     /\ DOMAIN s[i].patch \subseteq s[i].asked
<1> DEFINE s == Inherit(user, field, clubs)
<1>1. \A i \in DOMAIN s :
          s[i] = Request(clubs[i], user, [key \in {field} |-> Null], {field}, NoCleanup)
  BY DEF Inherit
<1> HIDE DEF s
<1>2. \A i \in DOMAIN s : s[i].patch = [key \in {field} |-> Null] /\ s[i].asked = {field}
  BY <1>1 DEF Request
<1>3. \A i \in DOMAIN s : /\ FormKeeps(s[i].patch)
                          /\ DOMAIN s[i].patch \subseteq s[i].asked
  BY <1>2 DEF FormKeeps
<1>4. \A i \in DOMAIN s : SendsTheRest(s[i])
  BY <1>3 DEF SendsTheRest
<1> QED
  BY <1>3, <1>4 DEF RequestsAsk, s

\* The form of an open page asks for the edits and sends the rest as it is stored.
LEMMA FormAsks ==
    ASSUME AskedInv, FormShowsRules, NEW c \in Clients, page[c] # Nothing, NEW user,
           NEW edits \in Patches[page[c].scope], NEW cleaned
    PROVE  LET scope == page[c].scope
               request == Request(scope, user, FormPatch(scope, page[c].policy, edits),
                                  DOMAIN edits, cleaned)
           IN  FormKeeps(request.patch) /\ SendsTheRest(request)
<1> DEFINE scope == page[c].scope
           row == rows[scope]
           patch == FormPatch(scope, LoadedPolicy(scope, row), edits)
           request == Request(scope, user, patch, DOMAIN edits, cleaned)
<1>1. TypeInv
  BY DEF AskedInv, SessionInv, BeforeInv
<1>2. scope \in Scopes /\ IsRow(scope, row) /\ FormKeeps(row)
  BY <1>1, TypeParts DEF TypeInv, ClientOK, AskedInv
<1>3. /\ \A field \in DOMAIN patch \ DOMAIN edits : StoredPolicy(patch)[field] = row[field]
      /\ FormKeeps(patch)
  BY <1>2, FormSendsTheRest
<1>4. page[c].policy = LoadedPolicy(scope, row)
  BY DEF AskedInv, PageIsFresh
<1> HIDE DEF patch
<1>5. request.scope = scope /\ request.patch = patch /\ request.asked = DOMAIN edits
  BY DEF Request
<1>6. FormKeeps(request.patch) /\ SendsTheRest(request)
  BY <1>3, <1>5 DEF SendsTheRest
<1> QED
  BY <1>4, <1>6 DEF patch

\* The sequences the console and direct callers send.
LEMMA SentAsks ==
    ASSUME AskedInv, FormShowsRules, NEW c \in Clients, NEW user \in Users,
           \/ \E scope \in Scopes : PostPatch(c, user, scope)
           \/ SubmitForm(c, user)
           \/ SaveWithCleanup(c, user)
           \/ InheritArea(c, user)
    PROVE  \E sequence : RequestsAsk(sequence) /\ Send(c, sequence)
<1>1. ASSUME NEW scope \in Scopes, PostPatch(c, user, scope)
      PROVE  \E sequence : RequestsAsk(sequence) /\ Send(c, sequence)
  <2>1. PICK patch \in Patches[scope] :
            Send(c, <<Request(scope, user, patch, DOMAIN patch, NoCleanup)>>)
    BY <1>1 DEF PostPatch
  <2> DEFINE request == Request(scope, user, patch, DOMAIN patch, NoCleanup)
  <2>2. request.patch = patch /\ request.asked = DOMAIN patch
    BY DEF Request
  <2> HIDE DEF request
  <2>3. FormKeeps(request.patch) /\ SendsTheRest(request)
    BY <2>2, FieldKinds DEF FormKeeps, FormShowsRules, SendsTheRest
  <2> QED
    BY <2>1, <2>3, OneRequestAsks DEF request
<1>2. CASE SubmitForm(c, user)
  <2>1. PICK edits \in Patches[page[c].scope] :
            /\ page[c] # Nothing
            /\ Send(c, <<Request(page[c].scope, user,
                                 FormPatch(page[c].scope, page[c].policy, edits),
                                 DOMAIN edits, NoCleanup)>>)
    BY <1>2 DEF SubmitForm
  <2> DEFINE request == Request(page[c].scope, user,
                                FormPatch(page[c].scope, page[c].policy, edits),
                                DOMAIN edits, NoCleanup)
  <2>2. FormKeeps(request.patch) /\ SendsTheRest(request)
    BY <2>1, FormAsks
  <2> HIDE DEF request
  <2> QED
    BY <2>1, <2>2, OneRequestAsks DEF request
<1>3. CASE SaveWithCleanup(c, user)
  <2>1. /\ page[c] # Nothing
        /\ page[c].scope = Organization
    BY <1>3 DEF SaveWithCleanup
  <2>2. PICK edits \in Patches[Organization], clubs \in CleanupLists, field \in Areas :
            Send(c, <<Request(Organization, user,
                              FormPatch(Organization, page[c].policy, edits),
                              DOMAIN edits,
                              [field |-> field, clubs |-> {clubs[i] : i \in DOMAIN clubs}])>>
                    \o Inherit(user, field, clubs))
    BY <1>3 DEF SaveWithCleanup
  <2> DEFINE request == Request(Organization, user,
                                FormPatch(Organization, page[c].policy, edits),
                                DOMAIN edits,
                                [field |-> field, clubs |-> {clubs[i] : i \in DOMAIN clubs}])
             rest == Inherit(user, field, clubs)
             all == <<request>> \o rest
  <2>3. FormKeeps(request.patch) /\ SendsTheRest(request)
    BY <2>1, FormAsks
  <2>4. \A i \in DOMAIN rest : /\ FormKeeps(rest[i].patch)
                               /\ DOMAIN rest[i].patch \subseteq rest[i].asked
    BY InheritAsks
  <2>5. IsSequence(rest)
    BY InheritAreRequests DEF AreRequests
  <2>6. Send(c, all)
    BY <2>2
  <2> HIDE DEF request, rest
  <2>7. /\ \A i \in DOMAIN all : all[i] = request \/ \E j \in DOMAIN rest : all[i] = rest[j]
        /\ all[1] = request
        /\ \A i \in DOMAIN all : i # 1 => \E j \in DOMAIN rest : all[i] = rest[j]
    BY <2>5, ConsElements
  <2> HIDE DEF all
  <2>8. RequestsAsk(all)
    BY <2>3, <2>4, <2>7 DEF RequestsAsk
  <2> QED
    BY <2>6, <2>8
<1>4. CASE InheritArea(c, user)
  <2>1. PICK field \in Areas, clubs \in CleanupLists :
            Send(c, Inherit(user, field, clubs))
    BY <1>4 DEF InheritArea
  <2> QED
    BY <2>1, InheritAsks
<1> QED
  BY <1>1, <1>2, <1>3, <1>4

\* Steps that leave the rows alone.
LEMMA RowsKeptKeepsAsked ==
    ASSUME AskedInv, SessionInv', UNCHANGED rows,
           \A c \in Clients : PageIsFresh(c)' /\ RequestsAsk(requests'[c])
    PROVE  AskedInv'
<1>1. ASSUME NEW c \in Clients
      PROVE  RequestsAsk(requests[c])'
  <2>1. RequestsAsk(requests'[c])
    OBVIOUS
  <2> QED
    BY <2>1 DEF RequestsAsk, SendsTheRest
<1> QED
  BY <1>1 DEF AskedInv

\* A save: the row it leaves, the fields it changed, the requests left to send.
LEMMA SaveAsks ==
    ASSUME OneSession, AskedInv, FormShowsRules, SessionInv', NEW c \in Clients, Save(c)
    PROVE  /\ AskedInv'
           /\ transaction[c] # Nothing /\ transaction'[c] = Nothing
           /\ Head(requests[c]).scope \in Scopes
           /\ \A scope \in Scopes \ {Head(requests[c]).scope} : rows'[scope] = rows[scope]
           /\ \A field \in PolicyFields \ Head(requests[c]).asked :
                 rows'[Head(requests[c]).scope][field] = rows[Head(requests[c]).scope][field]
<1> DEFINE request == Head(requests[c])
           scope == request.scope
           patch == request.patch
           next == applyPatch(transaction[c].previous, patch)
<1>1. /\ transaction[c] # Nothing /\ transaction[c].previous # Nothing
      /\ rows' = [rows EXCEPT ![scope] = StoredPolicy(next)]
      /\ transaction' = [transaction EXCEPT ![c] = Nothing]
      /\ requests' = [requests EXCEPT ![c] = Tail(@)]
      /\ UNCHANGED page
  BY DEF Save
<1>2. TypeInv
  BY DEF AskedInv, SessionInv, BeforeInv
<1>3. /\ requests[c] # <<>> /\ IsSequence(requests[c])
      /\ DOMAIN rows = Scopes /\ DOMAIN transaction = Clients /\ DOMAIN requests = Clients
  BY <1>1, <1>2, TypeParts DEF TypeInv, ClientOK, Shape
<1>4. IsRequest(request)
  BY <1>2, <1>3, HeadIsRequest
<1>5. /\ 1 \in DOMAIN requests[c] /\ request = requests[c][1]
      /\ \A i \in DOMAIN Tail(requests[c]) :
            i + 1 \in DOMAIN requests[c] /\ Tail(requests[c])[i] = requests[c][i + 1]
      /\ DOMAIN requests[c] \subseteq Nat \ {0} /\ DOMAIN Tail(requests[c]) \subseteq Nat \ {0}
  <2>1. IsSequence(Tail(requests[c]))
    BY <1>3, TailElements
  <2>2. \A s : IsSequence(s) => DOMAIN s \subseteq Nat \ {0}
    BY DEF IsSequence
  <2> QED
    BY <1>3, <2>1, <2>2, TailElements
<1>6. /\ FormKeeps(patch) /\ SendsTheRest(request)
      /\ transaction[c].previous = LoadedPolicy(scope, rows[scope])
  BY <1>1, <1>5 DEF AskedInv, RequestsAsk, SessionInv
<1>7. scope \in Scopes /\ IsRow(scope, rows[scope]) /\ FormKeeps(rows[scope])
  BY <1>2, <1>4, TypeParts DEF IsRequest, TypeInv, AskedInv
<1> HIDE DEF request
<1>8. \A field \in PolicyFields :
         /\ field \in DOMAIN patch => next[field] = patch[field]
         /\ field \notin DOMAIN patch => next[field] = LoadedPolicy(scope, rows[scope])[field]
  BY <1>6 DEF applyPatch
<1> HIDE DEF next
<1>9. ASSUME NEW field \in PolicyFields \ DOMAIN patch
      PROVE  StoredPolicy(next)[field] = rows[scope][field]
  BY <1>7, <1>8, LoadedIsStored
<1>10. ASSUME NEW field \in PolicyFields \ request.asked
       PROVE  StoredPolicy(next)[field] = rows[scope][field]
  <2>1. CASE field \in DOMAIN patch
    <3>1. StoredPolicy(patch)[field] = rows[scope][field]
      BY <1>6, <2>1 DEF SendsTheRest
    <3>2. next[field] = patch[field]
      BY <1>8, <2>1
    <3> QED
      BY <3>1, <3>2 DEF StoredPolicy
  <2> QED
    BY <1>9, <2>1
<1>11. FormKeeps(StoredPolicy(next))
  <2> SUFFICES ASSUME NEW field \in RuleFields
               PROVE  FormRule(StoredPolicy(next)[field]) = StoredPolicy(next)[field]
    BY DEF FormKeeps
  <2>1. field \in PolicyFields /\ field # "autoApproveMaxRisk"
    BY FieldKinds
  <2>2. CASE field \in DOMAIN patch
    <3>1. StoredPolicy(next)[field] = IF patch[field] = Null THEN EmptyObject ELSE patch[field]
      BY <1>8, <2>1, <2>2 DEF StoredPolicy
    <3> QED
      BY <1>6, <2>2, <3>1, BlankRule DEF FormKeeps
  <2>3. CASE field \notin DOMAIN patch
    <3>1. StoredPolicy(next)[field] = rows[scope][field]
      BY <1>9, <2>1, <2>3
    <3>2. rows[scope][field] # Null /\ DOMAIN rows[scope] = PolicyFields
      BY <1>7 DEF IsRow, IsPolicy
    <3> QED
      BY <1>7, <2>1, <3>1, <3>2 DEF FormKeeps
  <2> QED
    BY <2>2, <2>3
<1>12. /\ rows'[scope] = StoredPolicy(next)
       /\ \A other \in Scopes \ {scope} : rows'[other] = rows[other]
       /\ transaction'[c] = Nothing /\ requests'[c] = Tail(requests[c])
  BY <1>1, <1>3, <1>7
<1>13. RequestsAsk(requests[c])'
  <2>1. ASSUME NEW i \in DOMAIN Tail(requests[c])
        PROVE  /\ FormKeeps(Tail(requests[c])[i].patch)
               /\ DOMAIN Tail(requests[c])[i].patch \subseteq Tail(requests[c])[i].asked
    <3>1. /\ i + 1 \in DOMAIN requests[c] /\ i + 1 # 1
          /\ Tail(requests[c])[i] = requests[c][i + 1]
      BY <1>5
    <3> QED
      BY <3>1 DEF AskedInv, RequestsAsk
  <2> QED
    BY <1>12, <2>1 DEF RequestsAsk, SendsTheRest
<1>14. PageIsFresh(c)'
  BY <1>1, <1>3 DEF AskedInv, PageIsFresh
<1>15. \A other \in Scopes : FormKeeps(rows'[other])
  BY <1>11, <1>12 DEF AskedInv
<1>16. AskedInv'
  BY <1>13, <1>14, <1>15 DEF AskedInv, OneSession
<1> QED
  BY <1>1, <1>7, <1>10, <1>12, <1>16 DEF request

LEMMA AskedStep ==
    ASSUME OneSession, FormShowsRules, AskedInv, [Next]_vars
    PROVE  /\ AskedInv'
           /\ UNCHANGED rows \/ \E c \in Clients : Save(c)
<1>1. SessionInv'
  BY SessionStep DEF AskedInv
<1>2. DOMAIN requests = Clients /\ DOMAIN page = Clients /\ TypeInv
  BY DEF AskedInv, SessionInv, BeforeInv, TypeInv, Shape
<1>3. ASSUME UNCHANGED <<rows, page, requests>>
      PROVE  AskedInv'
  <2>1. \A d \in Clients : PageIsFresh(d)' /\ RequestsAsk(requests'[d])
    BY <1>3 DEF AskedInv, PageIsFresh
  <2> QED
    BY <1>1, <1>3, <2>1, RowsKeptKeepsAsked
<1>4. CASE UNCHANGED vars
  BY <1>3, <1>4 DEF vars
<1>5. CASE Next
  <2>1. PICK c \in Clients :
           \/ \E user \in Users :
                 \/ \E scope \in Scopes : PostPatch(c, user, scope)
                 \/ SubmitForm(c, user)
                 \/ SaveWithCleanup(c, user)
                 \/ InheritArea(c, user)
           \/ \E scope \in Scopes : OpenPage(c, scope)
           \/ Begin(c)
           \/ Load(c)
           \/ Save(c)
           \/ Fail(c)
    BY <1>5 DEF Next
  <2>2. \A d \in Clients : d = c
    BY DEF OneSession
  <2>3. ASSUME NEW user \in Users,
               \/ \E scope \in Scopes : PostPatch(c, user, scope)
               \/ SubmitForm(c, user)
               \/ SaveWithCleanup(c, user)
               \/ InheritArea(c, user)
        PROVE  AskedInv' /\ UNCHANGED rows
    <3>1. PICK sequence : RequestsAsk(sequence) /\ Send(c, sequence)
      BY <2>3, SentAsks
    <3>2. /\ requests'[c] = sequence /\ page'[c] = Nothing
          /\ UNCHANGED rows
      BY <1>2, <3>1 DEF Send
    <3>3. \A d \in Clients : PageIsFresh(d)' /\ RequestsAsk(requests'[d])
      BY <2>2, <3>1, <3>2 DEF PageIsFresh
    <3> QED
      BY <1>1, <3>2, <3>3, RowsKeptKeepsAsked
  <2>4. ASSUME NEW scope \in Scopes, OpenPage(c, scope)
        PROVE  AskedInv' /\ UNCHANGED rows
    <3>1. /\ requests[c] = <<>>
          /\ page'[c] = [scope |-> scope, policy |-> LoadedPolicy(scope, rows[scope])]
          /\ UNCHANGED <<rows, requests>>
      BY <1>2, <2>4 DEF OpenPage
    <3>2. \A d \in Clients : PageIsFresh(d)' /\ RequestsAsk(requests'[d])
      BY <2>2, <3>1 DEF AskedInv, PageIsFresh
    <3> QED
      BY <1>1, <3>1, <3>2, RowsKeptKeepsAsked
  <2>5. CASE Begin(c) \/ Load(c)
    BY <1>3, <2>5 DEF Begin, Load
  <2>6. CASE Fail(c)
    <3>1. requests[c] # <<>> /\ requests'[c] = <<>> /\ UNCHANGED <<rows, page>>
      BY <1>2, <2>6 DEF Fail
    <3>2. RequestsAsk(<<>>)
      BY EmptySeq DEF RequestsAsk
    <3>3. \A d \in Clients : PageIsFresh(d)' /\ RequestsAsk(requests'[d])
      BY <2>2, <3>1, <3>2 DEF AskedInv, PageIsFresh
    <3> QED
      BY <1>1, <3>1, <3>3, RowsKeptKeepsAsked
  <2>7. CASE Save(c)
    BY <1>1, <2>7, SaveAsks
  <2> QED
    BY <2>1, <2>3, <2>4, <2>5, <2>6, <2>7 DEF Begin, Load, Fail
<1> QED
  BY <1>4, <1>5 DEF vars

\* What is in force for a club in a field is read from the field of two rows.
LEMMA InForceOf ==
    ASSUME NEW club \in Clubs, NEW field \in PolicyFields
    PROVE  /\ InForce(club)'[field] # InForce(club)[field] =>
                 \/ rows'[club][field] # rows[club][field]
                 \/ /\ rows'[Organization][field] # rows[Organization][field]
                    /\ LoadedPolicy(club, rows[club])[field] = Null
<1>1. club # Organization
  BY StoreAssumption
<1>2. \A org, row : EffectiveWorkflowPolicy(org, row)[field] =
          pickOverride(LoadedPolicy(club, row)[field], org[field], defaultWorkflowPolicy[field])
  BY <1>1 DEF EffectiveWorkflowPolicy, LoadedPolicy
<1>3. \A row, next : row[field] = next[field] =>
          LoadedPolicy(club, row)[field] = LoadedPolicy(club, next)[field]
  BY DEF LoadedPolicy
<1> QED
  BY <1>2, <1>3 DEF InForce, pickOverride

\* One session: nobody's save carries another change along, though every save writes
\* every column and the form posts every field. The form must have inputs for the
\* rules it is shown: it drops what it has none for.
THEOREM OnlyAskedFieldsEverChange ==
    ASSUME OneSession, FormShowsRules
    PROVE  Spec => OnlyAskedFieldsChange
<1>1. Init => AskedInv
  <2> SUFFICES ASSUME Init
               PROVE  AskedInv
    OBVIOUS
  <2>1. SessionInv
    BY SessionInit
  <2>2. \A c \in Clients : page[c] = Nothing /\ requests[c] = <<>>
    BY DEF Init
  <2>3. \A scope \in Scopes : FormKeeps(rows[scope])
    BY DEF Init, FormShowsRules, FormKeeps
  <2>4. RequestsAsk(<<>>)
    BY EmptySeq DEF RequestsAsk
  <2> QED
    BY <2>1, <2>2, <2>3, <2>4 DEF AskedInv, PageIsFresh
<1>2. AskedInv /\ [Next]_vars => AskedInv'
  BY AskedStep
<1>3. AskedInv /\ [Next]_vars =>
        [\A club \in Clubs, field \in PolicyFields :
          InForce(club)'[field] # InForce(club)[field] =>
              \E c \in Clients :
                  LET request == Head(requests[c])
                  IN  /\ transaction[c] # Nothing /\ transaction'[c] = Nothing
                      /\ field \in request.asked
                      /\ \/ request.scope = club
                         \/ /\ request.scope = Organization
                            /\ LoadedPolicy(club, rows[club])[field] = Null]_vars
  <2> SUFFICES ASSUME AskedInv, [Next]_vars, NEW club \in Clubs, NEW field \in PolicyFields,
                      InForce(club)'[field] # InForce(club)[field]
               PROVE  \E c \in Clients :
                         LET request == Head(requests[c])
                         IN  /\ transaction[c] # Nothing /\ transaction'[c] = Nothing
                             /\ field \in request.asked
                             /\ \/ request.scope = club
                                \/ /\ request.scope = Organization
                                   /\ LoadedPolicy(club, rows[club])[field] = Null
    OBVIOUS
  <2>1. \/ rows'[club][field] # rows[club][field]
        \/ /\ rows'[Organization][field] # rows[Organization][field]
           /\ LoadedPolicy(club, rows[club])[field] = Null
    BY InForceOf
  <2>2. PICK c \in Clients : Save(c)
    BY <2>1, AskedStep
  <2>3. SessionInv'
    BY SessionStep DEF AskedInv
  <2>4. /\ transaction[c] # Nothing /\ transaction'[c] = Nothing
        /\ \A scope \in Scopes \ {Head(requests[c]).scope} : rows'[scope] = rows[scope]
        /\ \A other \in PolicyFields \ Head(requests[c]).asked :
              rows'[Head(requests[c]).scope][other] = rows[Head(requests[c]).scope][other]
    BY <2>2, <2>3, SaveAsks
  <2>5. club \in Scopes /\ Organization \in Scopes
    BY DEF Scopes
  <2> QED
    BY <2>1, <2>4, <2>5
<1> QED
  BY <1>1, <1>2, <1>3, PTL DEF Spec, OnlyAskedFieldsChange

=============================================================================
