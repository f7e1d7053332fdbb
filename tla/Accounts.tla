-------------------------------- MODULE Accounts --------------------------------
(***************************************************************************)
(* Financial accounts of a workspace and the profile that goes with their  *)
(* type.  A body is the set of what it contains; "foreign id" stands for   *)
(* an account of another workspace in the path.                            *)
(***************************************************************************)
EXTENDS RequestPipeline

CONSTANTS
  AccountTypes,  \* the types considered
  KnownType      \* the type of the account there is

ASSUME AccountsAssumption ==
  /\ AccountTypes \subseteq {"CASH", "BANK", "CREDIT_CARD", "DEBT", "LOAN", "LENT_MONEY"}
  /\ KnownType \in AccountTypes

VARIABLES
  accounts,        \* id -> row of accounts with its profile
  currencyActive,  \* the currency accounts are created in is offered
  existing         \* worker -> the row its request has read

accountsVars == <<accounts, currencyActive, existing>>

\* The only account requests name, the first.
Known == 1

\* The definition of each type: the kind of its profile.
ProfileKind(type) == IF type \in {"CASH", "BANK"} THEN "NONE" ELSE type

NewAccount(type, profile) ==
  [type |-> type, status |-> "ACTIVE", profile |-> profile, name |-> "old", balance |-> 0]

NoRow == NewAccount("none", "NONE")

InitAccounts ==
  /\ accounts = [id \in {Known} |-> NewAccount(KnownType, "NONE")]
  /\ currencyActive = TRUE
  /\ existing = [w \in Workers |-> NoRow]

\* A profile is accepted for the types that have one, and may always be left out.
ProfileFits(type, body) == "profile" \in body => ProfileKind(type) # "NONE"

ProfileAfter(row, body) == IF "profile" \in body THEN ProfileKind(row.type) ELSE row.profile

-----------------------------------------------------------------------------
FindCurrency(w) ==
  /\ Statement(w, "handler") /\ On(w, {"create account"})
  /\ \E type \in AccountTypes \cap Body(w) :
       IF currencyActive /\ ProfileFits(type, Body(w))
       THEN Go(w, "create")
       ELSE Answer(w, 400)
  /\ UNCHANGED <<surroundings, received, accountsVars>>

\* One transaction: the row, its cached balance the initial one, the profile, the read.
CreateAccount(w) ==
  /\ Statement(w, "create")
  /\ \E type \in AccountTypes \cap Body(w) :
       LET row == NewAccount(type, "NONE")
           id  == Cardinality(DOMAIN accounts) + 1
       IN  accounts' = [i \in DOMAIN accounts \cup {id} |->
             IF i = id THEN [row EXCEPT !.profile = ProfileAfter(row, Body(w))] ELSE accounts[i]]
  /\ AnswerHavingWritten(w, 201)
  /\ UNCHANGED <<surroundings, received, currencyActive, existing>>

ImmutableFields == {"type", "balance"}

\* What the service finds wrong with the row it has read, if anything.
Objection(w) ==
  LET row == accounts[Known]
  IN  CASE On(w, {"update account"}) /\ ~ProfileFits(row.type, Body(w)) -> 400
        [] On(w, {"archive"}) /\ row.status = "ARCHIVED"                -> 409
        [] On(w, {"reactivate"}) /\ row.status = "ACTIVE"               -> 409
        [] OTHER                                                        -> 0

Attempted(w) == On(w, {"update account"}) /\ Body(w) \cap ImmutableFields # {}

RefuseImmutable(w) ==
  /\ At(w, "handler") /\ Attempted(w)
  /\ Answer(w, 409)
  /\ UNCHANGED <<surroundings, received, accountsVars>>

\* Faulty variant: the change is made and then found to be wrong.
FindAndWrite(w) ==
  /\ Statement(w, "handler") /\ On(w, {"update account", "archive", "reactivate"}) /\ ~Attempted(w)
  /\ IF "foreign id" \in Body(w) THEN Answer(w, 404)
     ELSE IF Objection(w) # 0 THEN AnswerHavingWritten(w, Objection(w))
     ELSE Go(w, "write account")
  /\ existing' = [existing EXCEPT ![w] = IF Objection(w) = 0 THEN accounts[Known] ELSE NoRow]
  /\ UNCHANGED <<surroundings, received, accounts, currencyActive>>

FindAccount(w) ==
  /\ Statement(w, "handler") /\ On(w, {"update account", "archive", "reactivate"}) /\ ~Attempted(w)
  /\ IF "foreign id" \in Body(w) THEN Answer(w, 404)
     ELSE IF Objection(w) # 0 THEN Answer(w, Objection(w))
     ELSE Go(w, "write account")
  /\ existing' = [existing EXCEPT ![w] = IF Objection(w) = 0 THEN accounts[Known] ELSE NoRow]
  /\ UNCHANGED <<surroundings, received, accounts, currencyActive>>

\* One transaction: the columns of the body, the profile if there is one, the read.
UpdateAccount(w) ==
  /\ Statement(w, "write account") /\ On(w, {"update account"})
  /\ accounts' = [accounts EXCEPT
       ![Known].name = IF "name" \in Body(w) THEN "new" ELSE @,
       ![Known].profile = ProfileAfter(accounts[Known], Body(w))]
  /\ AnswerHavingWritten(w, 200)
  /\ existing' = [existing EXCEPT ![w] = NoRow]
  /\ UNCHANGED <<surroundings, received, currencyActive>>

StatusOf(w) == IF On(w, {"archive"}) THEN "ARCHIVED" ELSE "ACTIVE"

\* Faulty variant: the row as it was read is written back.
WriteBack(w) ==
  /\ Statement(w, "write account") /\ On(w, {"archive", "reactivate"})
  /\ accounts' = [accounts EXCEPT ![Known] = [existing[w] EXCEPT !.status = StatusOf(w)]]
  /\ GoHavingWritten(w, "read account back")
  /\ existing' = [existing EXCEPT ![w] = NoRow]
  /\ UNCHANGED <<surroundings, received, currencyActive>>

\* The update and the read of the answer are two statements, in no transaction.
UpdateStatus(w) ==
  /\ Statement(w, "write account") /\ On(w, {"archive", "reactivate"})
  /\ accounts' = [accounts EXCEPT ![Known].status = StatusOf(w)]
  /\ GoHavingWritten(w, "read account back")
  /\ existing' = [existing EXCEPT ![w] = NoRow]
  /\ UNCHANGED <<surroundings, received, currencyActive>>

ReadAccountBack(w) ==
  /\ Statement(w, "read account back")
  /\ Answer(w, 200)
  /\ UNCHANGED <<surroundings, received, accountsVars>>

ReadAccounts(w) ==
  /\ Statement(w, "handler") /\ On(w, {"read accounts"})
  /\ Answer(w, IF "foreign id" \in Body(w) THEN 404 ELSE 200)
  /\ UNCHANGED <<surroundings, received, accountsVars>>

-----------------------------------------------------------------------------
(* Beside them: the recompute of balances, and the seed.                   *)

Recompute ==
  /\ changes < MaxChanges
  /\ changes' = changes + 1
  /\ accounts' = [accounts EXCEPT ![Known].balance = 1 - @]
  /\ UNCHANGED <<access, claims, process, received, request, currencyActive, existing>>

RetireCurrency ==
  /\ changes < MaxChanges /\ currencyActive
  /\ changes' = changes + 1
  /\ currencyActive' = FALSE
  /\ UNCHANGED <<access, claims, process, received, request, accounts, existing>>
=================================================================================
