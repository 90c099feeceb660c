----------------------------- MODULE DeviceLink -----------------------------
(***************************************************************************)
(* Device-code onboarding (routes/device-link.ts).  An unauthenticated     *)
(* agent starts a link and polls it; a signed-in human claims its code,    *)
(* which creates an API key, an agent bound to it, and stashes the         *)
(* plaintext key in the row for one poll to collect.  Each handler awaits  *)
(* the database, or Better Auth, between its steps.  A key is named after  *)
(* the claim request that created it, and so is its agent.                 *)
(***************************************************************************)
EXTENDS Naturals

CONSTANTS
    Links,         \* device_link rows, one code and one poll token each
    Claims,        \* POST /claim requests
    Polls,         \* GET /poll requests in flight at a time
    Name,          \* Name[c]: the agent name request c asks for
    NoClaim,       \* NULL in a column that holds a key or an agent
    MaxPerWindow   \* rate limit: starts per address and window

ASSUME DeviceLinkAssumption ==
    /\ NoClaim \notin Claims
    /\ MaxPerWindow \in Nat \ {0}

VARIABLES
    link,     \* link[l]: status, api_key_once, agent_id, and whether its TTL is over
    starts,   \* the rate-limit bucket of the agent's address
    keys,     \* API keys Better Auth has created
    agents,   \* waddling.agent rows
    claim,    \* claim[c]: where the request stands, and the link it selected
    poll,     \* poll[p]: where the request stands, its link, its answer
    handed,   \* handed[l]: how often each key and agent pair was taken for delivery
    holds     \* links whose poll token the onboarding agent still keeps

linkVars == <<link, starts, keys, agents, claim, poll, handed, holds>>

Absent == [status |-> "none", key |-> NoClaim, agent |-> NoClaim, over |-> FALSE]

LinkTypeOK ==
    /\ link \in [Links -> [status: {"none", "pending", "claimed", "expired"},
                           key: Claims \cup {NoClaim},
                           agent: Claims \cup {NoClaim},
                           over: BOOLEAN]]
    /\ starts \in 0..MaxPerWindow
    /\ keys \subseteq Claims
    /\ agents \subseteq Claims
    /\ claim \in [Claims -> [pc: {"idle", "key", "agent", "flip", "ok", "failed"},
                             link: SUBSET Links]]
    /\ poll \in [Polls -> [pc: {"idle", "read", "deliver"}, link: SUBSET Links]]
    /\ handed \in [Links -> [Claims \X Claims -> Nat]]
    /\ holds \subseteq Links

LinkInit ==
    /\ link = [l \in Links |-> Absent]
    /\ starts = 0
    /\ keys = {}
    /\ agents = {}
    /\ claim = [c \in Claims |-> [pc |-> "idle", link |-> {}]]
    /\ poll = [p \in Polls |-> [pc |-> "idle", link |-> {}]]
    /\ handed = [l \in Links |-> [ka \in Claims \X Claims |-> 0]]
    /\ holds = {}

-----------------------------------------------------------------------------
(* POST /: within the rate limit, a pending row is inserted and the agent  *)
(* gets its poll token.                                                    *)
StartLink(l) ==
    /\ link[l].status = "none"
    /\ starts < MaxPerWindow
    /\ starts' = starts + 1
    /\ link' = [link EXCEPT ![l].status = "pending"]
    /\ holds' = holds \cup {l}
    /\ UNCHANGED <<keys, agents, claim, poll, handed>>

(* The rate limiter's window ends. *)
WindowEnds ==
    /\ starts > 0
    /\ starts' = 0
    /\ UNCHANGED <<link, keys, agents, claim, poll, handed, holds>>

(* expires_at passes; no row changes until a poll looks. *)
TtlEnds(l) ==
    /\ link[l].status # "none"
    /\ ~link[l].over
    /\ link' = [link EXCEPT ![l].over = TRUE]
    /\ UNCHANGED <<starts, keys, agents, claim, poll, handed, holds>>

-----------------------------------------------------------------------------
(* POST /claim selects a live pending link. *)
ClaimSelect(c, l) ==
    /\ claim[c].pc = "idle"
    /\ link[l].status = "pending"
    /\ ~link[l].over
    /\ claim' = [claim EXCEPT ![c] = [pc |-> "key", link |-> {l}]]
    /\ UNCHANGED <<link, starts, keys, agents, poll, handed, holds>>

(* createApiKey. *)
ClaimCreateKey(c) ==
    /\ claim[c].pc = "key"
    /\ keys' = keys \cup {c}
    /\ claim' = [claim EXCEPT ![c].pc = "agent"]
    /\ UNCHANGED <<link, starts, agents, poll, handed, holds>>

(* INSERT INTO waddling.agent; a taken name answers 409 and the key stays. *)
ClaimInsertAgent(c) ==
    /\ claim[c].pc = "agent"
    /\ \/ /\ \A d \in agents : Name[d] # Name[c]
          /\ agents' = agents \cup {c}
          /\ claim' = [claim EXCEPT ![c].pc = "flip"]
       \/ /\ \E d \in agents : Name[d] = Name[c]
          /\ claim' = [claim EXCEPT ![c].pc = "failed"]
          /\ UNCHANGED agents
    /\ UNCHANGED <<link, starts, keys, poll, handed, holds>>

(* Mutant: a second claim replaces the key but not the agent. *)
ClaimFlipKeepsAgent(c) ==
    /\ claim[c].pc = "flip"
    /\ link' = [l \in Links |->
                  IF l \in claim[c].link
                  THEN [link[l] EXCEPT !.status = "claimed", !.key = c,
                                       !.agent = IF @ = NoClaim THEN c ELSE @]
                  ELSE link[l]]
    /\ claim' = [claim EXCEPT ![c].pc = "ok"]
    /\ UNCHANGED <<starts, keys, agents, poll, handed, holds>>

(* The UPDATE by id: whatever the row's status is by now. *)
ClaimFlip(c) ==
    /\ claim[c].pc = "flip"
    /\ link' = [l \in Links |->
                  IF l \in claim[c].link
                  THEN [link[l] EXCEPT !.status = "claimed", !.key = c, !.agent = c]
                  ELSE link[l]]
    /\ claim' = [claim EXCEPT ![c].pc = "ok"]
    /\ UNCHANGED <<starts, keys, agents, poll, handed, holds>>

(* A step of the request throws, or the process dies under it. *)
ClaimFails(c) ==
    /\ claim[c].pc \in {"key", "agent", "flip"}
    /\ claim' = [claim EXCEPT ![c].pc = "failed"]
    /\ UNCHANGED <<link, starts, keys, agents, poll, handed, holds>>

-----------------------------------------------------------------------------
PollTo(p, pc) == poll' = [poll EXCEPT ![p].pc = pc]

(* Mutant: the lazy expiry also takes claimed rows. *)
PollExpireClaimed(p, l) ==
    /\ poll[p].pc = "idle"
    /\ l \in holds
    /\ link' = IF link[l].over THEN [link EXCEPT ![l].status = "expired"] ELSE link
    /\ poll' = [poll EXCEPT ![p] = [pc |-> "read", link |-> {l}]]
    /\ UNCHANGED <<starts, keys, agents, claim, handed, holds>>

(* Mutant: past the TTL the one-shot key is scrubbed from the row as well. *)
PollExpireScrubs(p, l) ==
    /\ poll[p].pc = "idle"
    /\ l \in holds
    /\ link' = IF link[l].over
               THEN [link EXCEPT ![l].key = NoClaim,
                                 ![l].status = IF @ = "pending" THEN "expired" ELSE @]
               ELSE link
    /\ poll' = [poll EXCEPT ![p] = [pc |-> "read", link |-> {l}]]
    /\ UNCHANGED <<starts, keys, agents, claim, handed, holds>>

(* GET /poll: lazily expire the row. *)
PollExpire(p, l) ==
    /\ poll[p].pc = "idle"
    /\ l \in holds
    /\ link' = IF link[l].status = "pending" /\ link[l].over
               THEN [link EXCEPT ![l].status = "expired"]
               ELSE link
    /\ poll' = [poll EXCEPT ![p] = [pc |-> "read", link |-> {l}]]
    /\ UNCHANGED <<starts, keys, agents, claim, handed, holds>>

(* Read the row; anything but claimed is answered as it is, and an agent   *)
(* told that its link expired forgets the token.                           *)
PollRead(p) ==
    /\ poll[p].pc = "read"
    /\ \E l \in poll[p].link :
          /\ PollTo(p, IF link[l].status = "claimed" THEN "deliver" ELSE "idle")
          /\ holds' = IF link[l].status = "expired" THEN holds \ {l} ELSE holds
    /\ UNCHANGED <<link, starts, keys, agents, claim, handed>>

Hand(l, key, agent) == handed' = [handed EXCEPT ![l][<<key, agent>>] = @ + 1]

(* Mutant: the key is read and returned, and nothing is cleared. *)
PollDeliverKeeps(p) ==
    /\ poll[p].pc = "deliver"
    /\ \E l \in poll[p].link :
          /\ link[l].key # NoClaim
          /\ Hand(l, link[l].key, link[l].agent)
    /\ PollTo(p, "idle")
    /\ UNCHANGED <<link, starts, keys, agents, claim, holds>>

(* UPDATE .. SET api_key_once = NULL .. RETURNING, and the answer.  An     *)
(* agent that gets the key forgets the token; the answer may be lost.      *)
PollDeliver(p) ==
    /\ poll[p].pc = "deliver"
    /\ \E l \in poll[p].link :
          \/ /\ link[l].key # NoClaim
             /\ Hand(l, link[l].key, link[l].agent)
             /\ link' = [link EXCEPT ![l].key = NoClaim]
             /\ holds' \in {holds, holds \ {l}}
          \/ /\ link[l].key = NoClaim
             /\ UNCHANGED <<link, handed, holds>>
    /\ PollTo(p, "idle")
    /\ UNCHANGED <<starts, keys, agents, claim>>

-----------------------------------------------------------------------------
LinkNext ==
    \/ \E l \in Links : StartLink(l)
    \/ WindowEnds
    \/ \E l \in Links : TtlEnds(l)
    \/ \E c \in Claims, l \in Links : ClaimSelect(c, l)
    \/ \E c \in Claims : ClaimCreateKey(c)
    \/ \E c \in Claims : ClaimInsertAgent(c)
    \/ \E c \in Claims : ClaimFlip(c)
    \/ \E c \in Claims : ClaimFails(c)
    \/ \E p \in Polls, l \in Links : PollExpire(p, l)
    \/ \E p \in Polls : PollRead(p)
    \/ \E p \in Polls : PollDeliver(p)

LinkSpec == LinkInit /\ [][LinkNext]_linkVars

(* The agent keeps polling every link and requests run to their end. *)
LinkFairSpec ==
    /\ LinkSpec
    /\ \A l \in Links : SF_linkVars(\E p \in Polls : PollExpire(p, l))
    /\ \A p \in Polls : WF_linkVars(PollRead(p)) /\ WF_linkVars(PollDeliver(p))

-----------------------------------------------------------------------------
HandedAgents(l, c) == {a \in Claims : handed[l][<<c, a>>] > 0}

(* The key of one claim is taken out of the row by at most one poll,       *)
(* however polls and claims interleave: UPDATE .. RETURNING in /poll.  It  *)
(* is one delivery for a key, not for a link: two claims that both         *)
(* selected the pending link put two keys through it one after the other.  *)
KeyHandedOnce ==
    \A c \in Claims :
        /\ \A l \in Links, a \in Claims : handed[l][<<c, a>>] <= 1
        /\ \A l, m \in Links :
              (HandedAgents(l, c) # {} /\ HandedAgents(m, c) # {}) => l = m

(* A delivered key comes with the agent it is bound to, also when two      *)
(* claims of the same code overwrite each other around the poll: /poll     *)
(* returns the columns of the UPDATE, not those it read before.            *)
HandedPairMatches ==
    \A l \in Links, c \in Claims : HandedAgents(l, c) \subseteq {c} \cap agents

SameLink(c, d) == claim[c].pc = "ok" /\ claim[d].pc = "ok" /\ claim[c].link = claim[d].link

(* No key gets lost unseen.  The key of a claim that answered 201 waits in *)
(* its row or went out in an answer, unless another claim of the same code *)
(* that also answered 201 overwrote it; and a key without an agent belongs *)
(* to a claim that answered an error, or is about to: expiry, late claims  *)
(* and polls after the key was taken lose none (POST /claim, GET /poll).   *)
KeysAccounted ==
    \A c \in Claims :
        /\ \A l \in claim[c].link :
              claim[c].pc = "ok" => \/ link[l].key = c
                                   \/ HandedAgents(l, c) # {}
                                   \/ \E d \in Claims \ {c} : SameLink(c, d)
        /\ c \in keys \ agents => claim[c].pc \in {"agent", "failed"}

(* A key waiting in a claimed row is collected if the agent still polls:   *)
(* the lazy expiry of /poll leaves claimed rows alone.                     *)
WaitingKeyCollected ==
    \A l \in Links :
        (link[l].status = "claimed" /\ l \in holds) ~> link[l].key = NoClaim

=============================================================================
