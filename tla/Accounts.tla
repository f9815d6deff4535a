------------------------------ MODULE Accounts ------------------------------
(***************************************************************************)
(* Accounts of server/app/services/accounts.py and api/auth.py: users, one *)
(* organisation each, and the tokens they hold.  Each request reads in one *)
(* session and commits at its end; checking a password in between takes    *)
(* long, so requests of the same account overlap there.                    *)
(***************************************************************************)
EXTENDS Integers

CONSTANTS
    Handlers, Emails, Passwords, None,
    MaxChanges, MaxRegistered  \* bounds: password changes of an account, registrations that begin

VARIABLES
    users,     \* table users by e-mail, with the organisation's slug
    orgs,      \* table organizations: slugs, numbered as _unique_slug numbers equal names
    request,   \* requests being answered
    tokens,    \* history: the tokens that were issued
    begun,     \* how many registrations there were
    changing   \* history: accounts two of whose password changes overlapped

accountVars == <<users, orgs, request, tokens, begun, changing>>

Slugs == 1..MaxRegistered
User == [password: Passwords, version: Nat, changes: Nat, slug: Slugs]
Token == [email: Emails, type: {"access", "refresh"}, version: Nat, born: Nat]
Request == [op: {"register"}, email: Emails, password: Passwords, slug: Slugs]
           \cup [op: {"login"}, email: Emails, password: Passwords, row: User]
           \cup [op: {"patch"}, email: Emails, password: Passwords, new: Passwords, row: User]

AccountsAssumption == None \notin User \cup Request

AccountsTypeOK ==
    /\ users \in [Emails -> User \cup {None}] /\ orgs \subseteq Slugs
    /\ request \in [Handlers -> Request \cup {None}]
    /\ tokens \subseteq Token /\ changing \subseteq Emails

AccountsInit ==
    /\ users = [e \in Emails |-> None] /\ orgs = {} /\ request = [h \in Handlers |-> None]
    /\ tokens = {} /\ begun = 0 /\ changing = {}

\* The access and refresh tokens of an answer; born is the number of password changes
\* before the password they descend from was checked.
Pair(e, version, born) == [email : {e}, type : {"access", "refresh"}, version : {version}, born : {born}]

\* decode_token and the checks behind it: the right kind, a known user, his version.
Accepted(t, type) == t.type = type /\ users[t.email] # None /\ t.version = users[t.email].version

Open(h, r) == request[h] = None /\ request' = [request EXCEPT ![h] = r]
Close(h) == request' = [request EXCEPT ![h] = None]

\* register: no such account yet; the slug is the first free of its name.
Register(h, e, p) ==
    /\ users[e] = None /\ begun < MaxRegistered /\ begun' = begun + 1
    /\ \E n \in Slugs : /\ n \notin orgs /\ \A m \in 1..n-1 : m \in orgs
                        /\ Open(h, [op |-> "register", email |-> e, password |-> p, slug |-> n])
    /\ UNCHANGED <<users, orgs, tokens, changing>>

\* Its commit: a slug or an e-mail taken meanwhile rolls everything back.
Taken(r) == r.slug \in orgs \/ users[r.email] # None
Registered(h) ==
    /\ request[h] # None /\ request[h].op = "register"
    /\ LET r == request[h] IN
       IF Taken(r) THEN UNCHANGED <<users, orgs, tokens>>
       ELSE /\ orgs' = orgs \cup {r.slug}
            /\ users' = [users EXCEPT ![r.email] =
                           [password |-> r.password, version |-> 0, changes |-> 0, slug |-> r.slug]]
            /\ tokens' = tokens \cup Pair(r.email, 0, 0)
    /\ Close(h) /\ UNCHANGED <<begun, changing>>

\* login: the row is read, then the password compared with what was read.
Login(h, e, p) ==
    /\ users[e] # None /\ Open(h, [op |-> "login", email |-> e, password |-> p, row |-> users[e]])
    /\ UNCHANGED <<users, orgs, tokens, begun, changing>>
LoggedIn(h) ==
    /\ request[h] # None /\ request[h].op = "login"
    /\ LET r == request[h] IN
       tokens' = IF r.password = r.row.password THEN tokens \cup Pair(r.email, r.row.version, r.row.changes) ELSE tokens
    /\ Close(h) /\ UNCHANGED <<users, orgs, begun, changing>>

\* refresh: a refresh token for a new pair of the version it was checked against.
Refresh(t) ==
    /\ Accepted(t, "refresh") /\ tokens' = tokens \cup Pair(t.email, users[t.email].version, t.born)
    /\ UNCHANGED <<users, orgs, request, begun, changing>>

\* patch_me: the row is read once, by get_current_user; a change of password beside another is noted.
PatchMe(h, t, current, new) ==
    /\ Accepted(t, "access") /\ users[t.email].changes < MaxChanges
    /\ Open(h, [op |-> "patch", email |-> t.email, password |-> current, new |-> new, row |-> users[t.email]])
    /\ UNCHANGED <<users, orgs, tokens, begun, changing>>

\* Mutant of NextVersion: the tokens issued before go on.
NextVersionKept(row) == row.version

\* update_me: compared with the hash that was read, written with the version after it.
NextVersion(row) == row.version + 1
Patched(h) ==
    /\ request[h] # None /\ request[h].op = "patch"
    /\ LET r == request[h] IN
       IF r.password # r.row.password THEN UNCHANGED <<users, changing>>
       ELSE /\ users' = [users EXCEPT ![r.email] = [password |-> r.new, version |-> NextVersion(r.row),
                                                     changes |-> @.changes + 1, slug |-> @.slug]]
            /\ changing' = IF users[r.email] = r.row THEN changing ELSE changing \cup {r.email}
    /\ Close(h) /\ UNCHANGED <<orgs, tokens, begun>>

AccountsNext ==
    \/ \E h \in Handlers, e \in Emails, p \in Passwords : Register(h, e, p) \/ Login(h, e, p)
    \/ \E h \in Handlers : Registered(h) \/ LoggedIn(h) \/ Patched(h)
    \/ \E t \in tokens : Refresh(t) \/ \E h \in Handlers, p, q \in Passwords : PatchMe(h, t, p, q)

AccountsSpec == AccountsInit /\ [][AccountsNext]_accountVars

-----------------------------------------------------------------------------
\* Unless two of its password changes overlapped, an account accepts only tokens that
\* descend from its present password (deps.get_current_user says so of every change), and
\* each organisation is that of exactly one registered user, however registrations raced.
Owner(e, s) == users[e] # None /\ users[e].slug = s
AccountsSound ==
    /\ \A t \in tokens : Accepted(t, t.type) /\ t.email \notin changing => t.born = users[t.email].changes
    /\ \A s \in orgs : \E e \in Emails : \A f \in Emails : Owner(f, s) <=> f = e
    /\ \A e \in Emails : users[e] # None => users[e].slug \in orgs
=============================================================================
