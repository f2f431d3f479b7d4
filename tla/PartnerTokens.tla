--------------------------- MODULE PartnerTokens ---------------------------
(***************************************************************************)
(* Upload tokens live in two stores: the hash of a partner's token in      *)
(* partners.api_token_hash, and the map from hash to partner at the upload *)
(* Worker's edge, the only one that lets an upload in.  issue-token writes *)
(* the database first, revoke-token the edge first; either may stop        *)
(* between two writes, and a call to the edge may fail after it has        *)
(* worked.  The operator runs one command at a time.                       *)
(***************************************************************************)
EXTENDS Naturals

CONSTANTS
    Partners,  \* rows of partners, the house excluded
    Tokens,    \* tokens that may be minted, each standing for its hash
    None       \* SQL null, no entry at the edge

ASSUME TokensAssumption == None \notin Partners \cup Tokens

VARIABLES
    status,   \* partners.status
    stored,   \* partners.api_token_hash
    edge,     \* the Worker's TOKENS: hash -> partner
    minted,   \* tokens printed for the operator
    desk,     \* the command in progress
    dropped   \* tokens an issue-token that stopped was still to kill (not in the code)

tokenVars == <<status, stored, edge, minted, desk, dropped>>

Idle == [at |-> "idle", partner |-> None, token |-> None, previous |-> None]

TokensTypeOK ==
    /\ status \in [Partners -> {"active", "inactive"}]
    /\ stored \in [Partners -> Tokens \cup {None}]
    /\ edge \in [Tokens -> Partners \cup {None}]
    /\ minted \subseteq Tokens
    /\ dropped \subseteq Tokens
    /\ desk \in [at : {"idle", "rotate", "publish", "kill", "clear"},
                 partner : Partners \cup {None}, token : Tokens \cup {None},
                 previous : Tokens \cup {None}]
    /\ desk.at # "idle" => desk.partner # None /\ desk.token # None
    /\ desk.at = "rotate" => desk.previous # None

(* Partners may hold tokens from before, each its own.                      *)
TokensInit ==
    /\ status = [p \in Partners |-> "active"]
    /\ stored \in [Partners -> Tokens \cup {None}]
    /\ edge \in [Tokens -> Partners \cup {None}]
    /\ \A p \in Partners, t \in Tokens : edge[t] = p <=> stored[p] = t
    /\ minted = {t \in Tokens : edge[t] # None}
    /\ desk = Idle
    /\ dropped = {}

-----------------------------------------------------------------------------
(* partners set --status                                                    *)
SetStatus(p, s) ==
    /\ desk = Idle
    /\ status' = [status EXCEPT ![p] = s]
    /\ UNCHANGED <<stored, edge, minted, desk, dropped>>

(* Mutant of FirstCall: the previous token is killed, had there been one or *)
(* not.                                                                     *)
FirstCallKills(p) == "rotate"

(* Rotation kills the previous token first.                                 *)
FirstCall(p) == IF stored[p] = None THEN "publish" ELSE "rotate"

(* issue-token: for an active partner a token is minted, its hash stored    *)
(* and the token printed, before the edge is touched.  --no-push ends here. *)
Issue(p, t, push) ==
    /\ desk = Idle
    /\ status[p] = "active"
    /\ t \notin minted
    /\ minted' = minted \cup {t}
    /\ stored' = [stored EXCEPT ![p] = t]
    /\ IF push
       THEN /\ desk' = [at |-> FirstCall(p), partner |-> p, token |-> t,
                        previous |-> stored[p]]
            /\ UNCHANGED dropped
       ELSE /\ dropped' = dropped \cup ({stored[p]} \ {None})
            /\ UNCHANGED desk
    /\ UNCHANGED <<status, edge>>

(* Mutant of Revoke: the database first, as in issue-token.                 *)
RevokeDatabaseFirst(p) ==
    /\ desk = Idle
    /\ status[p] = "active"
    /\ stored[p] # None
    /\ stored' = [stored EXCEPT ![p] = None]
    /\ desk' = [at |-> "kill", partner |-> p, token |-> stored[p], previous |-> None]
    /\ UNCHANGED <<status, edge, minted, dropped>>

(* revoke-token: an active partner that has a token.  The edge comes first. *)
Revoke(p) ==
    /\ desk = Idle
    /\ status[p] = "active"
    /\ stored[p] # None
    /\ desk' = [at |-> "kill", partner |-> p, token |-> stored[p], previous |-> None]
    /\ UNCHANGED <<status, stored, edge, minted, dropped>>

(* What the call the command is at does to the edge: deleteToken of the     *)
(* previous or the revoked hash, putToken of the new one.                   *)
EdgeAnswer ==
    CASE desk.at = "rotate"  -> [edge EXCEPT ![desk.previous] = None]
      [] desk.at = "publish" -> [edge EXCEPT ![desk.token] = desk.partner]
      [] desk.at = "kill"    -> [edge EXCEPT ![desk.token] = None]
      [] OTHER               -> edge

(* The edge confirms, and the command goes on.                              *)
EdgeConfirms ==
    /\ desk.at \in {"rotate", "publish", "kill"}
    /\ edge' = EdgeAnswer
    /\ desk' = CASE desk.at = "rotate"  -> [desk EXCEPT !.at = "publish"]
                 [] desk.at = "publish" -> Idle
                 [] desk.at = "kill"    -> [desk EXCEPT !.at = "clear"]
    /\ UNCHANGED <<status, stored, minted, dropped>>

(* The last write of revoke-token.                                          *)
ClearStored ==
    /\ desk.at = "clear"
    /\ stored' = [stored EXCEPT ![desk.partner] = None]
    /\ desk' = Idle
    /\ UNCHANGED <<status, edge, minted, dropped>>

(* TokenRegistryError, a database error or a kill: the command ends where   *)
(* it is.  A failed call may have worked, its answer lost.                  *)
CommandStops ==
    /\ desk # Idle
    /\ edge' \in {edge, EdgeAnswer}
    /\ dropped' = IF desk.at = "rotate" THEN dropped \cup {desk.previous} ELSE dropped
    /\ desk' = Idle
    /\ UNCHANGED <<status, stored, minted>>

TokensNext ==
    \/ \E p \in Partners, s \in {"active", "inactive"} : SetStatus(p, s)
    \/ \E p \in Partners, t \in Tokens, push \in BOOLEAN : Issue(p, t, push)
    \/ \E p \in Partners : Revoke(p)
    \/ EdgeConfirms
    \/ ClearStored
    \/ CommandStops

TokensSpec == TokensInit /\ [][TokensNext]_tokenVars

-----------------------------------------------------------------------------
(* A token the Worker honours is the one the database names, or the one an  *)
(* issue-token in progress is about to kill, or one an issue-token that     *)
(* stopped had still to kill.  A revoke that stops is no exception: what it *)
(* leaves alive is still named and can be revoked again.                    *)
HonouredIsNamed ==
    \A t \in Tokens : edge[t] # None =>
       \/ stored[edge[t]] = t
       \/ desk.at = "rotate" /\ desk.previous = t
       \/ t \in dropped
=============================================================================
