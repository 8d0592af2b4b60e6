----------------------------- MODULE CodeGrant -----------------------------
(***************************************************************************)
(* What the authorization code flow promises: an authorization request is  *)
(* answered with one code at most, for a user of the organization of its   *)
(* client, and a code is exchanged for tokens once at most, by the client  *)
(* that made the request.  CodeFlow implements it.                         *)
(***************************************************************************)
EXTENDS Naturals

CONSTANTS
    Asks, Codes, Clients, Users,
    Org(_), \* the organization of a client or a user
    NoAsk, NoClient, NoUser

VARIABLES
    client, \* client[i]: who made the request i
    answer, \* answer[k]: the request that the code k answers
    user,   \* user[k]: for whom
    bought  \* bought[k]: the clients that exchanged k for tokens, in order

grant == <<client, answer, user, bought>>

Init ==
    /\ client = [i \in Asks |-> NoClient]
    /\ answer = [k \in Codes |-> NoAsk] /\ user = [k \in Codes |-> NoUser]
    /\ bought = [k \in Codes |-> <<>>]

\* A client asks for a user to be authenticated.
Make(i, c) ==
    /\ client[i] = NoClient
    /\ client' = [client EXCEPT ![i] = c]
    /\ UNCHANGED <<answer, user, bought>>

\* The one code that answers the request i.
Give(i, k, u) ==
    /\ client[i] # NoClient /\ Org(u) = Org(client[i])
    /\ answer[k] = NoAsk /\ \A j \in Codes : answer[j] # i
    /\ answer' = [answer EXCEPT ![k] = i] /\ user' = [user EXCEPT ![k] = u]
    /\ UNCHANGED <<client, bought>>

\* The code k buys tokens.
Spend(k) ==
    /\ answer[k] # NoAsk /\ bought[k] = <<>>
    /\ bought' = [bought EXCEPT ![k] = <<client[answer[k]]>>]
    /\ UNCHANGED <<client, answer, user>>

Next ==
    \/ \E i \in Asks, c \in Clients : Make(i, c)
    \/ \E i \in Asks, k \in Codes, u \in Users : Give(i, k, u)
    \/ \E k \in Codes : Spend(k)

Spec == Init /\ [][Next]_grant
=============================================================================
