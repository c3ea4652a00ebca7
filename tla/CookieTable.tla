----------------------------- MODULE CookieTable -----------------------------
(***************************************************************************)
(* The cookie table of a switch daemon (src/switch_manager/               *)
(* cookie_table.c).  Applications choose the cookies of their flows        *)
(* freely, so two of them may choose the same one.  The daemon gives every *)
(* pair of an application and its cookie a cookie of its own, counts the   *)
(* flows that use it, and translates back what the switch reports.  Two    *)
(* hashes lead to the same entries: global by the daemon's cookie,         *)
(* application by the pair.                                                *)
(*                                                                         *)
(* An entry is identified by its pair.  expire_at is kept as the one thing *)
(* that is asked of it, whether it has passed.                             *)
(***************************************************************************)
EXTENDS Integers

CONSTANTS
    MaxCookie,     \* INVALID_COOKIE - 1
    Pairs,         \* (application, its cookie)
    MaxReferences  \* bound on reference_count

RESERVED_COOKIE == 0

ASSUME CookieConstants == MaxCookie \in Nat \ {0} /\ MaxReferences \in Nat \ {0}

VARIABLES
    cookie_dough,
    global,        \* cookie -> pair
    application    \* pair -> entry

cookieVars == <<cookie_dough, global, application>>

CookieEntry == [cookie : 0 .. MaxCookie, flags : BOOLEAN,
                reference_count : 1 .. MaxReferences, expired : BOOLEAN]

CookieInit ==
    /\ cookie_dough = 0
    /\ global = [c \in {} |-> c]
    /\ application = [p \in {} |-> p]

Without(f, keys) == [x \in DOMAIN f \ keys |-> f[x]]
With(f, key, value) == [x \in DOMAIN f \cup {key} |-> IF x = key THEN value ELSE f[x]]

(* The cookies in the order generate_cookie tries them.  When all are in   *)
(* use it settles for RESERVED_COOKIE.                                     *)
CookieSuccessor(c) == IF c # MaxCookie THEN c + 1 ELSE 1
Tried(k) ==
    LET first == CookieSuccessor(cookie_dough)
    IN  IF first + k <= MaxCookie THEN first + k ELSE first + k - MaxCookie
Free == {k \in 0 .. MaxCookie - 1 : Tried(k) \notin DOMAIN global}
FirstFree == CHOOSE k \in Free : \A j \in Free : k <= j
LowestFree == CHOOSE c \in 0 .. MaxCookie :
    c \notin DOMAIN global \cup {0} /\ \A d \in 1 .. c - 1 : d \in DOMAIN global
generate_cookie == IF Free = {} THEN RESERVED_COOKIE ELSE Tried(FirstFree)

(* delete_cookie_entry gives back one reference, and the entry with the    *)
(* last one.                                                               *)
LastReferenceEarly(p) == application[p].reference_count <= 2
LastReference(p) == application[p].reference_count <= 1
GlobalKept(p) == global
GlobalAfterDelete(p) ==
    IF LastReference(p) THEN Without(global, {application[p].cookie}) ELSE global
ApplicationAfterDelete(p) ==
    IF LastReference(p) THEN Without(application, {p})
                        ELSE [application EXCEPT ![p].reference_count = @ - 1]

delete_cookie_entry(p) ==
    /\ global' = GlobalAfterDelete(p)
    /\ application' = ApplicationAfterDelete(p)
    /\ UNCHANGED cookie_dough

(* A new pair.  An entry that holds the generated cookie already (only     *)
(* RESERVED_COOKIE can be so held) loses a reference and its place.        *)
InsertNew(p, flags) ==
    LET c == generate_cookie
        conflict == c \in DOMAIN global
        others == IF conflict THEN ApplicationAfterDelete(global[c]) ELSE application
    IN  /\ cookie_dough' = c
        /\ global' = With(global, c, p)
        /\ application' = With(others, p, [cookie |-> c, flags |-> flags,
                                           reference_count |-> 1, expired |-> FALSE])

(* A pair in use gets one more reference and the union of the flags.       *)
InsertAgainOverwriting(p, flags) ==
    /\ application[p].reference_count < MaxReferences
    /\ application' = [application EXCEPT
                          ![p].reference_count = @ + 1,
                          ![p].flags = flags,
                          ![p].expired = FALSE]
    /\ UNCHANGED <<cookie_dough, global>>
InsertAgain(p, flags) ==
    /\ application[p].reference_count < MaxReferences
    /\ application' = [application EXCEPT
                          ![p].reference_count = @ + 1,
                          ![p].flags = @ \/ flags,
                          ![p].expired = FALSE]
    /\ UNCHANGED <<cookie_dough, global>>

insert_cookie_entry(p, flags) ==
    IF p \in DOMAIN application THEN InsertAgain(p, flags) ELSE InsertNew(p, flags)

(* The cookie insert_cookie_entry returns.                                 *)
InsertedCookie(p) == IF p \in DOMAIN application THEN application[p].cookie ELSE generate_cookie

(* age_cookie_table walks the global hash and drops every expired entry,   *)
(* whatever its reference count.                                           *)
AgedOut == {c \in DOMAIN global : application[global[c]].expired}

age_cookie_table ==
    /\ global' = Without(global, AgedOut)
    /\ application' = Without(application, {global[c] : c \in AgedOut})
    /\ UNCHANGED cookie_dough

(* COOKIE_ENTRY_LIFETIME passes without a new reference.                   *)
Expire(p) ==
    /\ ~application[p].expired
    /\ application' = [application EXCEPT ![p].expired = TRUE]
    /\ UNCHANGED <<cookie_dough, global>>

CookieNext ==
    \/ \E p \in Pairs, flags \in BOOLEAN : insert_cookie_entry(p, flags)
    \/ \E c \in DOMAIN global : delete_cookie_entry(global[c])
    \/ \E p \in DOMAIN application : Expire(p)
    \/ age_cookie_table

CookieSpec == CookieInit /\ [][CookieNext]_cookieVars

-----------------------------------------------------------------------------
(* Every field of the table stays in its range; in particular no cookie is *)
(* INVALID_COOKIE and no entry is kept without a reference.                *)
CookieTypeOK ==
    /\ cookie_dough \in 0 .. MaxCookie
    /\ DOMAIN global \subseteq 0 .. MaxCookie
    /\ DOMAIN application \subseteq Pairs
    /\ \A c \in DOMAIN global : global[c] \in Pairs
    /\ \A p \in DOMAIN application : application[p] \in CookieEntry

(* The two hashes agree: a cookie leads to an entry that carries it, and   *)
(* the entry of a pair is found under its cookie.  delete_cookie_entry     *)
(* frees the entry it takes out of both, so a hash that kept it would      *)
(* point to freed memory.  Even when the cookies run out, only an entry    *)
(* under RESERVED_COOKIE can lose its place.                               *)
CookieTablesAgree ==
    /\ \A c \in DOMAIN global :
          global[c] \in DOMAIN application /\ application[global[c]].cookie = c
    /\ \A p \in DOMAIN application : application[p].cookie # RESERVED_COOKIE =>
          /\ application[p].cookie \in DOMAIN global
          /\ global[application[p].cookie] = p

=============================================================================
