------------------------------ MODULE Firewall ------------------------------
(***************************************************************************)
(* services/firewall.py and routers/firewall.py: ufw driven from request   *)
(* threads, with the check that is to keep SSH open.  One request that     *)
(* closes the firewall is followed step by step; the others, and the       *)
(* operator at a shell, change rules between its steps.                    *)
(*                                                                         *)
(* ufw keeps a list of rules for each of IPv4 and IPv6, and the first rule *)
(* that matches a connection decides.  A rule is known by its ports (the   *)
(* protocol among them) and its source; what its ports are is abstracted   *)
(* to the two things that count here: whether they cover TCP port 22, and  *)
(* whether their text says 22 or ssh.  Rules that do neither, comments and *)
(* outgoing traffic are left out; limit is an allow, and reject a deny.    *)
(***************************************************************************)
EXTENDS Integers, SequencesExt

CONSTANTS
    FwFamilies,    \* IPv4 and IPv6
    FwClients,     \* the addresses SSH may be used from
    FwFamilyOf,    \* the family of each
    FwPorts,       \* the ports a rule may name: 22/tcp, 22, 20:25/tcp, 2222/tcp
    FwCovering,    \* of these, the ones TCP port 22 is among (20:25/tcp)
    FwMentioning,  \* and those whose text contains 22 or ssh (2222/tcp, 22/udp)
    SshPort,       \* 22/tcp
    FwTargets,     \* the ports and sources of the rules, see FwTarget
    FwMaxRules     \* bound on the rules users give a family

Anywhere == FwClients

\* A source is an address, a network or Anywhere: the clients in it.
FwTarget == [ports : FwPorts, from : SUBSET FwClients]

SshTarget == [ports |-> SshPort, from |-> Anywhere]

ASSUME FirewallAssumption ==
    /\ FwFamilyOf \in [FwClients -> FwFamilies]
    /\ FwTargets \subseteq FwTarget /\ SshTarget \in FwTargets
    /\ FwCovering \subseteq FwPorts /\ FwMentioning \subseteq FwPorts
    /\ SshPort \in FwCovering \cap FwMentioning
    /\ FwMaxRules \in Nat

VARIABLES
    fwRules,    \* each family's rules, in order
    fwActive,   \* ufw is enabled
    fwPolicy,   \* the default for incoming connections
    fwReq       \* the request that closes the firewall, or NoFwReq

fwVars == <<fwRules, fwActive, fwPolicy, fwReq>>

FwRule == [to : FwTargets, action : {"allow", "deny"}]

NoFwReq == [op |-> "none"]

\* op: enable the firewall, or make deny its default; next: the command to
\* run; misled: the clients the check has not kept SSH open for; touched: the
\* rules have changed since the list was read.
FwReq == [op : {"enable", "deny"}, next : {"allow", "set"},
          misled : SUBSET FwClients, touched : BOOLEAN]

FwInit ==
    /\ fwRules = [f \in FwFamilies |-> <<>>]
    /\ fwActive = FALSE
    /\ fwPolicy = "deny"
    /\ fwReq = NoFwReq

-----------------------------------------------------------------------------
(* What ufw makes of a list of rules *)

\* The rules of a list a connection of client to port 22 matches.
Matching(rules, client) ==
    {i \in DOMAIN rules : rules[i].to.ports \in FwCovering /\ client \in rules[i].to.from}

\* The first of them allows it, or denies it.
Decides(rules, client, action) ==
    \E i \in Matching(rules, client) :
        \A j \in Matching(rules, client) : j <= i => rules[j].action = action

RulesFor(client) == fwRules[FwFamilyOf[client]]

LetIn(client) == Decides(RulesFor(client), client, "allow")

\* A rule that `allow 22/tcp` neither replaces nor comes before shuts the
\* client out, or may.
Barred(client) ==
    \E i \in Matching(RulesFor(client), client) :
        RulesFor(client)[i].action = "deny" /\ RulesFor(client)[i].to # SshTarget

\* Faulty variant: a second rule after the first.
WithRuleAdded(rules, rule) == Append(rules, rule)

\* `ufw allow|deny`: an earlier rule with the same ports and source becomes
\* this one where it stands; otherwise it is the last.
WithRule(rules, rule) ==
    IF \E i \in DOMAIN rules : rules[i].to = rule.to
    THEN [i \in DOMAIN rules |-> IF rules[i].to = rule.to THEN rule ELSE rules[i]]
    ELSE Append(rules, rule)

\* A rule for all addresses is one of both families.
RulesWith(rule, families) ==
    [f \in FwFamilies |->
        IF f \in families /\ \E c \in rule.to.from : FwFamilyOf[c] = f
        THEN WithRule(fwRules[f], rule) ELSE fwRules[f]]

AllowSshRule == [to |-> SshTarget, action |-> "allow"]

-----------------------------------------------------------------------------
(* The requests *)

Touched == fwReq' = IF fwReq = NoFwReq THEN fwReq ELSE [fwReq EXCEPT !.touched = TRUE]

AddFwRule ==
    /\ \E rule \in FwRule : fwRules' = RulesWith(rule, FwFamilies)
    /\ \A f \in FwFamilies : Len(fwRules'[f]) <= FwMaxRules
    /\ Touched
    /\ UNCHANGED <<fwActive, fwPolicy>>

\* By its number in a list that may be old: any rule.
DeleteFwRule ==
    /\ \E f \in FwFamilies : \E i \in DOMAIN fwRules[f] :
           fwRules' = [fwRules EXCEPT ![f] = RemoveAt(@, i)]
    /\ Touched
    /\ UNCHANGED <<fwActive, fwPolicy>>

DisableFw ==
    /\ fwActive' = FALSE
    /\ UNCHANGED <<fwRules, fwPolicy, fwReq>>

OpenDefault ==
    /\ fwPolicy' = "allow"
    /\ UNCHANGED <<fwRules, fwActive, fwReq>>

\* get_status: the families whose rules it lists.  `ufw status numbered` lists
\* them all, or none when it fails; the files of an inactive ufw are read one
\* by one, and skipped when that fails.
Listed == IF fwActive THEN {{}, FwFamilies} ELSE SUBSET FwFamilies

\* any("22" in r.to_port or "ssh" in r.to_port.lower()): whatever the rule's
\* action, source, protocol and family.
HasSsh(families) ==
    \E f \in families : \E i \in DOMAIN fwRules[f] : fwRules[f][i].to.ports \in FwMentioning

\* enable_firewall and set_default_policy up to their first command.
CheckSsh(op) ==
    /\ fwReq = NoFwReq
    /\ \E families \in Listed :
           fwReq' = [op |-> op,
                     next |-> IF HasSsh(families) THEN "set" ELSE "allow",
                     misled |-> IF HasSsh(families)
                                THEN {c \in FwClients : ~LetIn(c)}
                                ELSE {c \in FwClients : Barred(c)},
                     touched |-> FALSE]
    /\ UNCHANGED <<fwRules, fwActive, fwPolicy>>

\* ufw allow 22/tcp
AllowSsh ==
    /\ fwReq # NoFwReq /\ fwReq.next = "allow"
    /\ fwRules' = RulesWith(AllowSshRule, FwFamilies)
    /\ fwReq' = [fwReq EXCEPT !.next = "set"]
    /\ UNCHANGED <<fwActive, fwPolicy>>

\* Faulty variant: the closing command comes first and the rule after it,
\* once the firewall is up.
SetEnabledFirst ==
    /\ fwReq # NoFwReq /\ fwReq.op = "enable"
    /\ fwActive' = TRUE
    /\ fwReq' = NoFwReq
    /\ UNCHANGED <<fwRules, fwPolicy>>

\* ufw --force enable
SetEnabled ==
    /\ fwReq # NoFwReq /\ fwReq.next = "set" /\ fwReq.op = "enable"
    /\ fwActive' = TRUE
    /\ fwReq' = NoFwReq
    /\ UNCHANGED <<fwRules, fwPolicy>>

\* ufw default deny incoming
SetDeny ==
    /\ fwReq # NoFwReq /\ fwReq.next = "set" /\ fwReq.op = "deny"
    /\ fwPolicy' = "deny"
    /\ fwReq' = NoFwReq
    /\ UNCHANGED <<fwRules, fwActive>>

\* A command fails, or is killed after its 15 seconds, when it may have done
\* its work or, for the rule, half of it: the page says that it failed.
FwCommandFails ==
    /\ fwReq # NoFwReq
    /\ \/ UNCHANGED <<fwRules, fwActive, fwPolicy>>
       \/ /\ fwReq.next = "allow"
          /\ \E families \in SUBSET FwFamilies : fwRules' = RulesWith(AllowSshRule, families)
          /\ UNCHANGED <<fwActive, fwPolicy>>
       \/ /\ fwReq.next = "set"
          /\ fwActive' = (fwActive \/ fwReq.op = "enable")
          /\ fwPolicy' = IF fwReq.op = "deny" THEN "deny" ELSE fwPolicy
          /\ UNCHANGED fwRules
    /\ fwReq' = NoFwReq

FwNext ==
    \/ AddFwRule \/ DeleteFwRule \/ DisableFw \/ OpenDefault
    \/ CheckSsh("enable") \/ CheckSsh("deny")
    \/ AllowSsh \/ SetEnabled \/ SetDeny \/ FwCommandFails

FwSpec == FwInit /\ [][FwNext]_fwVars

-----------------------------------------------------------------------------
\* The variables have their types, and no two rules of a list have the same
\* ports and source.
FwTypeOK ==
    /\ fwRules \in [FwFamilies -> Seq(FwRule)]
    /\ \A f \in FwFamilies : \A i, j \in DOMAIN fwRules[f] :
           fwRules[f][i].to = fwRules[f][j].to => i = j
    /\ fwActive \in BOOLEAN
    /\ fwPolicy \in {"allow", "deny"}
    /\ fwReq \in FwReq \cup {NoFwReq}

SshOpen(client) ==
    \/ ~fwActive
    \/ LetIn(client)
    \/ fwPolicy = "allow" /\ ~Decides(RulesFor(client), client, "deny")

\* What enable_firewall and set_default_policy are written for: closing the
\* firewall leaves SSH open for every client, unless the check was misled about
\* it: it found 22 in the text of some rule though no rule lets that client in
\* (a rule on 2222, one that denies 22, one for another network or family), or
\* it found none and its own rule comes after one that denies the client (a
\* range, a list that could not be read).  Or the rules changed before the last
\* command.
ClosingKeepsSshOpen ==
    [][fwReq # NoFwReq /\ fwReq' = NoFwReq /\ ((fwActive' /\ ~fwActive) \/ fwPolicy' # fwPolicy)
       => \A c \in FwClients : SshOpen(c)' \/ c \in fwReq.misled \/ fwReq.touched]_fwVars
=============================================================================
