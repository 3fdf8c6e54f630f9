------------------------- MODULE AdmissionContract --------------------------
(***************************************************************************)
(* What administrators and clients of the relay may rely on, whatever runs *)
(* at the same time and wherever the process is killed: every edit of the  *)
(* authentication configuration, every creation of a job and every choice  *)
(* of a key by the scheduler happens at one moment, as a whole, by the     *)
(* configuration of that moment.                                           *)
(***************************************************************************)
CONSTANTS
    Jobs, Keys, Users, Tokens,
    Star, Allowed,               \* tokens for every key; the keys of the others
    Management, ManagementKey,   \* the management principal; whether there is one
    First                        \* the configuration at installation

VARIABLES
    config,      \* keys, the enabled ones, their Kaggle users, tokens, retired ids
    phase,       \* "none", "active" or "ended"
    owner,       \* the principal that a job belongs to
    key,         \* the Kaggle key of a job
    offered      \* the accounts a waiting job may be bound to: keys and their users

jobVars == <<phase, owner, key, offered>>
view == <<config, jobVars>>

Init ==
    /\ config = First
    /\ phase = [j \in Jobs |-> "none"]
    /\ owner \in [Jobs -> Tokens \cup {Management}]
    /\ key \in [Jobs -> Keys]
    /\ offered = [j \in Jobs |-> {}]

Principals == config.tokens \cup (IF ManagementKey THEN {Management} ELSE {})
Administrators == IF ManagementKey THEN {Management} ELSE config.tokens \cap Star

(* The keys that a principal may use now.                                  *)
MayUse(p) == {k \in config.enabled : p \in Star \cup {Management} \/ k \in Allowed[p]}

Accounts(p) == {<<k, config.user[k]>> : k \in MayUse(p)}

(* A configuration that the relay can start with.                          *)
Valid(c) ==
    /\ c.keys # {} /\ c.enabled \subseteq c.keys
    /\ c.tokens # {} \/ ManagementKey
    /\ \A t \in c.tokens \ Star : Allowed[t] \subseteq c.keys
    /\ c.tokens \cap c.retired = {}

(* The configuration after one operation of an administrator               *)
WithKey(k, u) == [config EXCEPT !.keys = @ \cup {k}, !.enabled = @ \cup {k}, !.user[k] = u]
WithChangedKey(k, u, on) ==
    [config EXCEPT !.enabled = IF on THEN @ \cup {k} ELSE @ \ {k}, !.user[k] = u]
WithToken(t) == [config EXCEPT !.tokens = @ \cup {t}]
WithoutToken(t) == [config EXCEPT !.tokens = @ \ {t}, !.retired = @ \cup {t}]

(* Users without unfinished jobs may be deleted; their ids are not reused. *)
Deletable(t) ==
    /\ t \in config.tokens \ Administrators
    /\ \A j \in Jobs : phase[j] = "active" => owner[j] # t

IsEdit(c) ==
    \/ \E k \in Keys \ config.keys, u \in Users : c = WithKey(k, u)
    \/ \E k \in config.keys, u \in Users, on \in BOOLEAN : c = WithChangedKey(k, u, on)
    \/ \E t \in Tokens \ (config.tokens \cup config.retired) : c = WithToken(t)
    \/ \E t \in Tokens : Deletable(t) /\ c = WithoutToken(t)

Edit ==
    /\ IsEdit(config')
    /\ Valid(config')
    /\ UNCHANGED jobVars

(* A job on a key of its owner's, or one that waits for any of them.       *)
Create(j) ==
    /\ phase[j] = "none"
    /\ phase' = [phase EXCEPT ![j] = "active"]
    /\ \E p \in Principals, k \in Keys, waits \in BOOLEAN :
         /\ k \in MayUse(p)
         /\ owner' = [owner EXCEPT ![j] = p]
         /\ key' = [key EXCEPT ![j] = k]
         /\ offered' = [offered EXCEPT ![j] = IF waits THEN Accounts(p) ELSE {}]
    /\ UNCHANGED config

(* The scheduler: one of the accounts offered, if it is still the owner's. *)
Bind(j) ==
    /\ phase[j] = "active"
    /\ \E a \in offered[j] \cap Accounts(owner[j]) : key' = [key EXCEPT ![j] = a[1]]
    /\ offered' = [offered EXCEPT ![j] = {}]
    /\ UNCHANGED <<config, phase, owner>>

End(j) ==
    /\ phase[j] = "active"
    /\ phase' = [phase EXCEPT ![j] = "ended"]
    /\ UNCHANGED <<config, owner, key, offered>>

Next == Edit \/ \E j \in Jobs : Create(j) \/ Bind(j) \/ End(j)

Spec == Init /\ [][Next]_view

=============================================================================
