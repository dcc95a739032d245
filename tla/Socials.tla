------------------------------- MODULE Socials -------------------------------
(***************************************************************************)
(* SocialsService: a wallet's owner signs in at Twitter and has the server *)
(* follow DePlan and record it.  The OAuth client of a wallet, with the    *)
(* code verifier of its last login link and the token it got, is held in   *)
(* memory only, is shared by all logins of the wallet, and is looked up    *)
(* again at every step of a callback.  Twitter itself is external.         *)
(***************************************************************************)
EXTENDS Naturals

CONSTANTS
    Owner,        \* owners of wallets, by wallet
    Login,        \* logins: a link and the callback it leads to
    Account,      \* accounts at Twitter
    NoLogin, NoAccount

ASSUME LoginAssumption == NoLogin \notin Login /\ NoAccount \notin Account

VARIABLES
    client,      \* _twitterClients: the verifier and the token of each wallet's
    login,       \* the logins
    social,      \* the document of each wallet
    followers    \* Twitter: who has followed DePlan

socialVars == <<client, login, social, followers>>

NewClient == [verifier |-> NoLogin, token |-> NoAccount]

InCallback == {"token", "me", "follow", "save", "remove"}

SocialsTypeOK ==
    /\ client \in [Owner -> [verifier : Login \cup {NoLogin}, token : Account \cup {NoAccount}]]
    /\ login \in [Login -> [pc : {"idle", "link", "done", "failed"} \cup InCallback,
                            owner : Owner, code : Account \cup {NoAccount},
                            me : Account \cup {NoAccount}, following : BOOLEAN]]
    /\ social \in [Owner -> [account : Account \cup {NoAccount}, following : BOOLEAN,
                              recent : BOOLEAN]]
    /\ followers \subseteq Account

SocialsInit ==
    /\ client = [w \in Owner |-> NewClient]
    /\ login \in [Login -> [pc : {"idle"}, owner : Owner, code : {NoAccount},
                            me : {NoAccount}, following : {FALSE}]]
    /\ social = [w \in Owner |-> [account |-> NoAccount, following |-> FALSE, recent |-> FALSE]]
    /\ followers = {}

LoginGoes(f, to) == login' = [login EXCEPT ![f].pc = to]

ClientOf(f) == client[login[f].owner]

\* twitterFollow: the link's verifier replaces the one of an earlier link.
TwitterFollow(f) ==
    /\ login[f].pc = "idle"
    /\ client' = [client EXCEPT ![login[f].owner].verifier = f]
    /\ LoginGoes(f, "link")
    /\ UNCHANGED <<social, followers>>

\* The owner signs in with an account and Twitter calls back with its code.
SignsIn(f, account) ==
    /\ login[f].pc = "link"
    /\ login' = [login EXCEPT ![f].pc = "token", ![f].code = account]
    /\ UNCHANGED <<client, social, followers>>

\* Twitter gives a token for the code if the client has the verifier of its
\* link.
RequestsAccessToken(f) ==
    /\ login[f].pc = "token"
    /\ ClientOf(f).verifier = f
    /\ client' = [client EXCEPT ![login[f].owner].token = login[f].code]
    /\ LoginGoes(f, "me")
    /\ UNCHANGED <<social, followers>>

\* Who the client's token belongs to.
GetsMyAccount(f) ==
    /\ login[f].pc = "me"
    /\ ClientOf(f).token # NoAccount
    /\ login' = [login EXCEPT ![f].pc = "follow", ![f].me = ClientOf(f).token]
    /\ UNCHANGED <<client, social, followers>>

\* Twitter lets an account follow only with its own token.
FollowsDeplan(f) ==
    /\ login[f].pc = "follow"
    /\ ClientOf(f).token = login[f].me
    /\ \E following \in BOOLEAN :
           /\ login' = [login EXCEPT ![f].pc = "save", ![f].following = following]
           /\ followers' = IF following THEN followers \cup {login[f].me} ELSE followers
    /\ UNCHANGED <<client, social>>

\* A request to Twitter or to the database is refused or fails; the client
\* stays as it is.
CallbackFails(f) ==
    /\ login[f].pc \in InCallback
    /\ LoginGoes(f, "failed")
    /\ UNCHANGED <<client, social, followers>>

\* Mutant: a wallet whose owner came back is recorded as following.
RecordsAnyway(f) ==
    /\ login[f].pc = "save"
    /\ social' = [social EXCEPT ![login[f].owner] =
                     [account |-> login[f].me, following |-> TRUE, recent |-> TRUE]]
    /\ LoginGoes(f, "remove")
    /\ UNCHANGED <<client, followers>>

\* After a tweet that may fail, the document is written, or inserted.
Records(f) ==
    /\ login[f].pc = "save"
    /\ social' = [social EXCEPT ![login[f].owner] =
                     [account |-> login[f].me, following |-> login[f].following,
                      recent |-> TRUE]]
    /\ LoginGoes(f, "remove")
    /\ UNCHANGED <<client, followers>>

\* removeTwitterClient: also the client another login of the wallet uses.
RemovesClient(f) ==
    /\ login[f].pc = "remove"
    /\ client' = [client EXCEPT ![login[f].owner] = NewClient]
    /\ LoginGoes(f, "done")
    /\ UNCHANGED <<social, followers>>

\* Three days pass.
FollowAges(w) ==
    /\ social[w].recent
    /\ social' = [social EXCEPT ![w].recent = FALSE]
    /\ UNCHANGED <<client, login, followers>>

\* twitterFollowCheck.
FollowCheck(w) == social[w].following /\ social[w].recent

\* The server restarts: callbacks end, and links find a client without their
\* verifier.
SocialsRestart ==
    /\ client' = [w \in Owner |-> NewClient]
    /\ login' = [f \in Login |->
                    IF login[f].pc \in InCallback THEN [login[f] EXCEPT !.pc = "failed"]
                    ELSE login[f]]
    /\ UNCHANGED <<social, followers>>

SocialsNext ==
    \/ \E f \in Login :
           \/ TwitterFollow(f)
           \/ \E account \in Account : SignsIn(f, account)
           \/ RequestsAccessToken(f)
           \/ GetsMyAccount(f)
           \/ FollowsDeplan(f)
           \/ CallbackFails(f)
           \/ Records(f)
           \/ RemovesClient(f)
    \/ \E w \in Owner : FollowAges(w)
    \/ SocialsRestart

SocialsSpec == SocialsInit /\ [][SocialsNext]_socialVars

\* An account a wallet's document says follows DePlan has followed it, although
\* logins of one wallet share a client whose token the other may replace or
\* remove at any step.
RecordedFollowed ==
    \A w \in Owner : social[w].following => social[w].account \in followers

=============================================================================
