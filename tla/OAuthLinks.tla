------------------------------ MODULE OAuthLinks ------------------------------
(***************************************************************************)
(* The OAuth links of a user (iface.User): NewUser, AddOAuthLink,          *)
(* RemoveOAuthLink, SetPrimaryOAuthLink and GetPrimaryOAuthLink, called in *)
(* any order.  A link is known by provider and provider id; nothing keeps  *)
(* the same one from being added twice.                                    *)
(***************************************************************************)
EXTENDS Naturals, Sequences

CONSTANTS
    LinkIds,   \* pairs of provider and provider id
    MaxLinks   \* bound: the links of a user

ASSUME LinksAssumption == MaxLinks \in Nat

VARIABLES
    links,     \* User.OAuthLinks; all of them are active
    chosen     \* history: the id that has last been made primary

linksVars == <<links, chosen>>

Link == [id : LinkIds, primary : BOOLEAN]

Primary == {i \in DOMAIN links : links[i].primary}

LinksTypeOK == links \in Seq(Link) /\ Len(links) <= MaxLinks

\* NewUser.
LinksInit == links = <<>> /\ chosen = {}

\* The links with only the i-th as primary; with none for i = 0.
OnlyPrimary(i) ==
    [j \in DOMAIN links |-> [id |-> links[j].id, primary |-> j = i]]

\* The first link with that id.
IsFirst(id, i) ==
    /\ i \in DOMAIN links /\ links[i].id = id
    /\ \A j \in 1 .. i - 1 : links[j].id # id

Without(i) ==
    [j \in 1 .. Len(links) - 1 |-> IF j < i THEN links[j] ELSE links[j + 1]]

AddOAuthLink(id, primary) ==
    /\ Len(links) < MaxLinks
    /\ links' = Append(IF primary THEN OnlyPrimary(0) ELSE links,
                       [id |-> id, primary |-> primary])
    /\ chosen' = IF primary THEN {id} ELSE chosen

\* Mutant: nobody takes over from a primary link that goes.
RemoveOAuthLinkOnly(id) ==
    \E i \in DOMAIN links :
        /\ Len(links) > 1 /\ IsFirst(id, i)
        /\ links' = Without(i)
        /\ UNCHANGED chosen

\* The last link stays; the first remaining link takes over from a primary
\* link that goes.
RemoveOAuthLink(id) ==
    \E i \in DOMAIN links :
        /\ Len(links) > 1 /\ IsFirst(id, i)
        /\ links' = IF links[i].primary
                    THEN [Without(i) EXCEPT ![1] = [id |-> @.id, primary |-> TRUE]]
                    ELSE Without(i)
        /\ chosen' = IF links[i].primary THEN {Without(i)[1].id} ELSE chosen

SetPrimaryOAuthLink(id) ==
    \E i \in DOMAIN links :
        /\ IsFirst(id, i)
        /\ links' = OnlyPrimary(i)
        /\ chosen' = {id}

LinksNext ==
    \E id \in LinkIds :
        \/ \E primary \in BOOLEAN : AddOAuthLink(id, primary)
        \/ RemoveOAuthLink(id)
        \/ SetPrimaryOAuthLink(id)

LinksSpec == LinksInit /\ [][LinksNext]_linksVars

\* GetPrimaryOAuthLink finds the link that was made primary last, or the one
\* that took over from it, and there is never a second primary link, not even
\* of the same id; before any was made primary it finds none.
PrimaryIsChosen ==
    /\ \A i, j \in Primary : i = j
    /\ {links[i].id : i \in Primary} = chosen
=============================================================================
