---------------------------- MODULE SavedWallets ----------------------------
(***************************************************************************)
(* The address book an organizer keeps in one browser: a store that every  *)
(* tab writes, and the two parts that write it: the picker beside an       *)
(* address field and the offer to save the wallets of a Bill just created. *)
(*                                                                         *)
(* A wallet stands for a network and an address, of which the store's      *)
(* unique index admits one record. A tab works on the list it read last.   *)
(* It writes one record per transaction, so that a file or the wallets of  *)
(* a Bill are several, and a failure leaves those that came before.        *)
(* Labels, the star, the time of use and the search are left out: what is  *)
(* kept of a record is what decides where it is offered and which tag it   *)
(* brings. Selecting a record, which marks it as used and fills the field, *)
(* therefore changes nothing here: the field may hold any draft.           *)
(***************************************************************************)
EXTENDS Naturals, Sequences, SequencesExt

CONSTANTS
    Tabs,
    Wallets,
    Tags,       \* Destination Tags, without NoTag
    MaxWrites,  \* bound on transactions that write
    NoTag,
    NoRecord

VARIABLES
    store,      \* store[w]: the record of wallet w, or NoRecord
    writes,     \* transactions so far; a new record takes it for its id
    list,       \* list[t]: the records the picker of tab t shows
    job         \* job[t]: the drafts tab t has yet to write, and whether roles are replaced

walletVars == <<store, writes, list, job>>

Roles == {"recipient", "payer", "both"}
WalletDrafts == [wallet : Wallets, role : Roles, tag : Tags \cup {NoTag}]

\* addRoleTagIssue, of the draft's and the record's schema alike.
IsValid(r) == r.role = "payer" => r.tag = NoTag

\* savedWalletSupportsRole
Supports(r, role) == r.role \in {role, "both"}

NoWallets == [w \in Wallets |-> NoRecord]
Saved(st) == {w \in Wallets : st[w] # NoRecord}

-----------------------------------------------------------------------------
(* saveSavedWallet, one transaction.                                       *)

MergeRoles(left, right) == IF left = right THEN left ELSE "both"

PayerTagFirst(existing, d, role) ==                                 \* mutant
    IF d.role = "payer" /\ existing # NoRecord THEN existing.tag
    ELSE IF role = "payer" THEN NoTag ELSE d.tag

TagAsDrafted(existing, d, role) ==                                  \* mutant
    IF role = "payer" THEN NoTag ELSE d.tag

DestinationTag(existing, d, role) ==
    CASE role = "payer" -> NoTag
      [] role # "payer" /\ d.role = "payer" -> existing.tag
      [] d.role # "payer" -> d.tag

Save(d, replaceRole) ==
    LET existing == store[d.wallet]
        role == IF existing # NoRecord /\ ~replaceRole
                THEN MergeRoles(existing.role, d.role) ELSE d.role
    IN [id |-> IF existing = NoRecord THEN writes ELSE existing.id,
        role |-> role, tag |-> DestinationTag(existing, d, role)]

\* listSavedWallets throws on the first record that is not valid, and nothing is shown.
ListWallets ==
    IF \A w \in Saved(store) : IsValid(store[w]) THEN store ELSE NoWallets

-----------------------------------------------------------------------------
(* The tabs.                                                               *)

Idle == [drafts |-> <<>>, replaceRole |-> FALSE, busy |-> FALSE]
Work(drafts, replaceRole) == [drafts |-> drafts, replaceRole |-> replaceRole, busy |-> TRUE]

WalletsInit ==
    /\ store = NoWallets /\ writes = 0
    /\ list = [t \in Tabs |-> NoWallets]
    /\ job = [t \in Tabs |-> Idle]

\* The picker is opened, also while its work goes on (Escape closes it at any time), or
\* the list is read again at the end of the work.
ListAgain(t) ==
    /\ list' = [list EXCEPT ![t] = ListWallets]
    /\ job' = [job EXCEPT ![t].busy = @ /\ job[t].drafts # <<>>]
    /\ UNCHANGED <<store, writes>>

\* One transaction of the work of tab t, that leaves the drafts that remain.
Write(t, d, replaceRole, remaining) ==
    /\ writes < MaxWrites
    /\ store' = [store EXCEPT ![d.wallet] = Save(d, replaceRole)]
    /\ writes' = writes + 1
    /\ job' = [job EXCEPT ![t] = Work(remaining, replaceRole)]
    /\ UNCHANGED list

\* A button starts the work, unless the tab is busy or a draft is not valid. The press and
\* the first transaction are one step: what is written depends on nothing that another
\* tab may change between them.
Start(t, drafts, replaceRole) ==
    /\ ~job[t].busy
    /\ \A i \in DOMAIN drafts : IsValid(drafts[i])
    /\ Write(t, Head(drafts), replaceRole, Tail(drafts))

\* submitEditor: what was typed or selected before, or a record of the list (beginEdit).
SaveCurrent(t, d) == Start(t, <<d>>, FALSE)
Edit(t, d) == list[t][d.wallet] # NoRecord /\ Start(t, <<d>>, TRUE)

\* toggleFavorite writes back what the list shows of everything but the star.
ToggleFavorite(t, w) ==
    /\ list[t][w] # NoRecord
    /\ Start(t, <<[wallet |-> w, role |-> list[t][w].role, tag |-> list[t][w].tag]>>, TRUE)

\* parseSavedWalletImport: a file names a wallet once.
ImportFile(t, first, second) ==
    first.wallet # second.wallet /\ Start(t, <<first, second>>, TRUE)

\* saveAll of the Bill just created: its recipient with the Bill's tag, then its payers,
\* who are all different and not the recipient.
SaveBillWallets(t, recipient, tag, payers) ==
    /\ IsInjective(payers) /\ \A i \in DOMAIN payers : payers[i] # recipient
    /\ Start(t,
        <<[wallet |-> recipient, role |-> "recipient", tag |-> tag]>>
            \o [i \in DOMAIN payers |->
                    [wallet |-> payers[i], role |-> "payer", tag |-> NoTag]],
        FALSE)

WriteNext(t) ==
    /\ job[t].drafts # <<>>
    /\ Write(t, Head(job[t].drafts), job[t].replaceRole, Tail(job[t].drafts))

\* The quota is used up, or the database is gone: an error, the rest of the work is not
\* done, and the list is not read.
FailWrite(t) ==
    /\ job[t].drafts # <<>>
    /\ job' = [job EXCEPT ![t] = Idle]
    /\ UNCHANGED <<store, writes, list>>

\* removeRecord deletes by id: nothing, if the record was deleted and saved anew.
RemoveRecord(t, w) ==
    /\ ~job[t].busy /\ list[t][w] # NoRecord /\ writes < MaxWrites
    /\ store' = IF store[w] # NoRecord /\ store[w].id = list[t][w].id
                THEN [store EXCEPT ![w] = NoRecord] ELSE store
    /\ writes' = writes + 1
    /\ job' = [job EXCEPT ![t] = Work(<<>>, FALSE)]
    /\ UNCHANGED list

RemoveAll(t) ==
    /\ ~job[t].busy /\ Saved(list[t]) # {} /\ writes < MaxWrites
    /\ store' = NoWallets
    /\ writes' = writes + 1
    /\ job' = [job EXCEPT ![t] = Work(<<>>, FALSE)]
    /\ UNCHANGED list

WalletsNext ==
    \E t \in Tabs :
        \/ ListAgain(t) \/ WriteNext(t) \/ FailWrite(t) \/ RemoveAll(t)
        \/ \E w \in Wallets : ToggleFavorite(t, w) \/ RemoveRecord(t, w)
        \/ \E d \in WalletDrafts :
            \/ SaveCurrent(t, d) \/ Edit(t, d)
            \/ \E e \in WalletDrafts : ImportFile(t, d, e)
        \/ \E w \in Wallets, tag \in Tags \cup {NoTag} :
            \E payers \in SeqOf(Wallets, 1) : SaveBillWallets(t, w, tag, payers)

WalletsSpec == WalletsInit /\ [][WalletsNext]_walletVars

-----------------------------------------------------------------------------
(* Properties.                                                             *)

\* No order of saves, edits and imports of several tabs stores a record that the list
\* refuses: one such record would hide all the others, and with them the buttons that
\* delete.
RecordsStayReadable == \A w \in Saved(store) : IsValid(store[w])

\* A wallet is saved for use as a payer: from its field, or with the wallets of a Bill.
PayerSave(t, d) ==
    /\ d.role = "payer"
    /\ \/ SaveCurrent(t, d)
       \/ WriteNext(t) /\ ~job[t].replaceRole /\ d = Head(job[t].drafts)

\* Saving a wallet as a payer takes nothing from the recipient it also is, whichever tab
\* saved that: neither its role nor its Destination Tag (saveSavedWallet's merge).
PayerUseKeepsTheTag ==
    [][\A t \in Tabs, d \in WalletDrafts :
        PayerSave(t, d) /\ store[d.wallet] # NoRecord /\ Supports(store[d.wallet], "recipient")
        => /\ Supports(store'[d.wallet], "recipient")
           /\ Supports(store'[d.wallet], "payer")
           /\ store'[d.wallet].tag = store[d.wallet].tag
      ]_walletVars

=============================================================================
