------------------------------- MODULE ApiKeys -------------------------------
(***************************************************************************)
(* API keys, auth/store.rs: rows are revoked, never deleted.                 *)
(***************************************************************************)
EXTENDS Naturals

CONSTANTS
    Keys,         \* the values of keys, that of the configuration included
    NoKey         \* no row

VARIABLES
    keys          \* keys[k]: the row under the hash of k

MintKey(k, owner) ==
    /\ keys[k] = NoKey
    /\ keys' = [keys EXCEPT ![k] = [owner |-> owner, revoked |-> FALSE]]

Live(k) == keys[k] # NoKey /\ ~keys[k].revoked

\* Only by its owner, and only once.
RevokeKey(k, who) ==
    keys' = IF Live(k) /\ keys[k].owner = who THEN [keys EXCEPT ![k].revoked = TRUE] ELSE keys

AnyKeyExists == \E k \in Keys : keys[k] # NoKey

\* Mutant of AdoptKey: a row that exists is made anew.
AdoptKeyAnew(k, owner) == keys' = [keys EXCEPT ![k] = [owner |-> owner, revoked |-> FALSE]]

\* ON CONFLICT(key_hash) DO NOTHING.
AdoptKey(k, owner) ==
    keys' = IF keys[k] # NoKey THEN keys
            ELSE [keys EXCEPT ![k] = [owner |-> owner, revoked |-> FALSE]]
=============================================================================
