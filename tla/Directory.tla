------------------------------ MODULE Directory ------------------------------
(***************************************************************************)
(* The tables of store/directory.rs that say who somebody is and what they  *)
(* may reach: people, channels and groups with their members, the external  *)
(* accounts of people, and the scopes external conversations are bound to.  *)
(*                                                                          *)
(* Every store call takes its own connection and is one statement, or one    *)
(* transaction: it is one step here, and the modules that extend this one    *)
(* put other steps between any two of them.  Names, labels and dates are     *)
(* left out.  An id is a value; the slug alphabet of normalize_channel_id    *)
(* only decides which ids exist.                                            *)
(***************************************************************************)
EXTENDS Naturals, FiniteSets, Sequences

CONSTANTS
    People,       \* principal ids, those of guests included
    ChannelIds,   \* ids of directory_channels
    GroupIds,     \* ids of directory_groups
    Accounts,     \* external accounts: a surface and a user id on it
    Chats,        \* external conversations: a surface and a chat id
    Nobody,       \* no principal
    NoScope       \* no scope

ASSUME DirectoryAssumption ==
    /\ Nobody \notin People
    /\ IsFiniteSet(People) /\ IsFiniteSet(GroupIds)

VARIABLES
    people,          \* people[p]: the row of `principals`
    channels,        \* the rows of `directory_channels`
    channelMembers,  \* the rows of `directory_channel_members`
    groupKey,        \* groupKey[g]: participant_key of a group, {} without a row
    groupMembers,    \* the rows of `directory_group_members`
    identities,      \* identities[a]: the principal an account is linked to
    bindings         \* bindings[c]: the scope a conversation is bound to
directory == <<people, channels, channelMembers, groupKey, groupMembers,
               identities, bindings>>

-----------------------------------------------------------------------------
(* Values *)

Kinds == {"internal", "external", "guest"}
NoPerson == [kind |-> "none", active |-> FALSE]
Person == [kind : Kinds, active : BOOLEAN] \cup {NoPerson}
Known(p) == people[p] # NoPerson

Personal(p) == [kind |-> "personal", ref |-> p]
ChannelScope(c) == [kind |-> "channel", ref |-> c]
GroupScope(g) == [kind |-> "group", ref |-> g]
Org == [kind |-> "org", ref |-> "org"]

SharedScopes == {ChannelScope(c) : c \in ChannelIds} \cup {GroupScope(g) : g \in GroupIds}
Scopes == {Personal(p) : p \in People} \cup SharedScopes \cup {Org}
IsShared(scope) == scope.kind \in {"channel", "group"}

DirectoryTypeOK ==
    /\ people \in [People -> Person]
    /\ channels \subseteq ChannelIds
    /\ channelMembers \subseteq channels \X {p \in People : Known(p)}
    /\ groupKey \in [GroupIds -> SUBSET People]
    /\ groupMembers \subseteq {g \in GroupIds : groupKey[g] # {}} \X {p \in People : Known(p)}
    /\ identities \in [Accounts -> People \cup {Nobody}]
    /\ bindings \in [Chats -> SharedScopes \cup {NoScope}]

-----------------------------------------------------------------------------
(* People *)

\* INSERT ... ON CONFLICT(id) DO UPDATE SET kind: a row that exists keeps its
\* activity and takes the kind of the caller.
UpsertPrincipal(p, kind) ==
    people' = [people EXCEPT ![p] = IF Known(p) THEN [@ EXCEPT !.kind = kind]
                                    ELSE [kind |-> kind, active |-> TRUE]]

SetActive(p, active) ==
    /\ Known(p)
    /\ people' = [people EXCEPT ![p].active = active]

-----------------------------------------------------------------------------
(* Channels *)

UpsertChannel(c) == channels' = channels \cup {c}

AddChannelMember(c, p) == channelMembers' = channelMembers \cup {<<c, p>>}

-----------------------------------------------------------------------------
(* Groups *)

\* participant_key: sorted and deduplicated, so a set.
ParticipantKey(participants) == {participants[i] : i \in DOMAIN participants}

\* The group over exactly these people, whatever id was asked for.
GroupOf(key, id) ==
    IF \E g \in GroupIds : groupKey[g] = key
    THEN CHOOSE g \in GroupIds : groupKey[g] = key
    ELSE id

\* Two people by the length of the list; every one of them known.  A group
\* that has the id but other people is given these.
UpsertGroup(id, participants) ==
    LET key == ParticipantKey(participants)
        g   == GroupOf(key, id)
    IN  /\ Len(participants) >= 2
        /\ \A p \in key : Known(p)
        /\ groupKey' = [groupKey EXCEPT ![g] = key]
        /\ groupMembers' = {m \in groupMembers : m[1] # g} \cup {<<g, p>> : p \in key}

DeleteGroup(g) ==
    /\ groupKey' = [groupKey EXCEPT ![g] = {}]
    /\ groupMembers' = {m \in groupMembers : m[1] # g}

-----------------------------------------------------------------------------
(* Accounts and conversations *)

LinkIdentity(a, p) ==
    /\ Known(p)
    /\ identities' = [identities EXCEPT ![a] = p]

UnlinkIdentity(a) == identities' = [identities EXCEPT ![a] = Nobody]

\* Any shared scope, whether or not it has a row.
LinkChannel(c, scope) ==
    /\ IsShared(scope)
    /\ bindings' = [bindings EXCEPT ![c] = scope]

UnlinkChannel(c) == bindings' = [bindings EXCEPT ![c] = NoScope]

-----------------------------------------------------------------------------
(* Entitlement *)

\* Personal scopes belong to one person, channels and groups go by
\* membership, the org is for internal people who are active.
Entitled(p, scope) ==
    \/ scope = Personal(p)
    \/ scope.kind = "channel" /\ <<scope.ref, p>> \in channelMembers
    \/ scope.kind = "group" /\ <<scope.ref, p>> \in groupMembers
    \/ scope.kind = "org" /\ people[p].kind = "internal" /\ people[p].active

=============================================================================
