------------------------------- MODULE Service -------------------------------
(***************************************************************************)
(* The requests of a connection on their way through the routes            *)
(* (routes.rs): the route a method and a path stand for, the token and the *)
(* CSRF token that a handler asks for (auth.rs), the signature of a        *)
(* webhook (stripe.rs), what becomes of a body, and what is stored.        *)
(*                                                                         *)
(* A handler is one step here.  How the handlers of several connections    *)
(* meet in the database and in the stores is the subject of Marketplace,   *)
(* UsageQuota, CsrfGate, SignIn and Webhook; of what those handlers store, *)
(* this module keeps only what its properties are about.                   *)
(***************************************************************************)
EXTENDS Connection, Boot

CONSTANTS MachinesFor(_), \* the machines on which a client with a script meets a server
          Users,
          Email,          \* the address of each user
          Customer,       \* the Stripe customer on record for each, or ""
          Now,            \* the time, in the unit of a token's exp
          MaxSafe,        \* MAX_SAFE_EXP
          Tolerance,      \* DEFAULT_WEBHOOK_TOLERANCE_SECS
          TokenLife,      \* TOKEN_EXPIRATION_DAYS
          Letters,        \* the letters of each e-mail address that is a string
          MaxEmail,       \* the length of the longest address
          MaxTld,         \* the length of the longest label at its end
          Files,          \* the paths of the static files
          Wide,           \* the largest i64
          MaxBooking,     \* MAX_BOOKING_MS
          MaxPrice,       \* MAX_HOURLY_PRICE
          NewIds,         \* what generate_uuid returns
          InitDb,         \* what is stored to begin with
          CsrfFor(_)      \* and what the CSRF store holds when a client comes

VARIABLES machine,    \* what the server was started on
          config,     \* AppState, as far as it does not change
          csrf,       \* the CSRF store: a token, and whether it is younger than a day
          db          \* what the handlers of this module store

serviceVars == <<machine, config, csrf, db>>
allVars == <<connVars, serviceVars>>

Nobody == ""

NoToken == [token |-> "", fresh |-> FALSE]

Minted == [token |-> "minted", fresh |-> TRUE]

\* f with v at x, whether or not there was something.
Put(f, x, v) == [y \in DOMAIN f \cup {x} |-> IF y = x THEN v ELSE f[y]]

-----------------------------------------------------------------------------
(* Who asks                                                                *)

Header(r, name, none) == Get(r.fields, name, none)

\* Request::cookie: the first of that name, unless a pair without "=" comes before it.
Cookie(r, name, none) ==
    LET pairs == Header(r, "cookie", <<>>)
        found == {i \in DOMAIN pairs : /\ pairs[i][1] = name
                                       /\ \A j \in 1..i : Len(pairs[j]) = 2}
    IN IF found = {} THEN none ELSE pairs[Min(found)][2]

\* The signature of a text under a key.
Signature(key, text) == [key |-> key, text |-> text]

NoJwt == [parts |-> 0, claims |-> J!NoValue, sig |-> Signature("", J!NoValue)]

\* exp is absent, or a whole number of moderate size that has not passed; 0 is absent.
Live(exp) == \/ exp.t \in {"none", "null"}
             \/ /\ J!Finite(exp) /\ exp.n % 2 = 0 /\ exp.n < 2 * MaxSafe /\ -exp.n < 2 * MaxSafe
                /\ exp.n = 0 \/ Now <= exp.n \div 2

\* jwt_verify: whose token it is.
Subject(jwt) ==
    IF /\ jwt.parts = 3 /\ jwt.sig = Signature(config.jwt, jwt.claims)
       /\ J!HasStr(jwt.claims, "userID") /\ Live(J!Get(jwt.claims, "exp"))
    THEN J!GetStr(jwt.claims, "userID") ELSE Nobody

\* Whose token the request carries.
Bearer(r) == Subject(Cookie(r, "token", NoJwt))

\* jwt_sign, for a token that expires.
JwtSign(u) ==
    LET claims == J!Obj([userID |-> J!Str(u), exp |-> J!Num(2 * (Now + TokenLife))])
    IN [parts |-> 3, claims |-> claims, sig |-> Signature(config.jwt, claims)]

-----------------------------------------------------------------------------
(* What comes of a request: a status, and what is in the stores after it   *)

Result(status, c, d) == [status |-> status, csrf |-> c, db |-> d]

Plain(status) == Result(status, csrf, db)

Stored(status, d) == Result(status, csrf, d)

\* require_auth: the user is known, or the handler ends.
Authed(r, results) ==
    IF config.jwt = "" THEN {Plain(503)}
    ELSE IF Bearer(r) = Nobody THEN {Plain(401)}
    ELSE results

\* Faulty variant: a token that the store has lost is taken on trust.
CsrfVerdictOnTrust(shown, kept) ==
    CASE shown = Nobody -> "refused"
      [] shown # Nobody /\ kept # NoToken /\ shown # kept.token -> "refused"
      [] OTHER -> "passed"

\* require_csrf: the token shown is the one in the store, and not a day old.
CsrfVerdict(shown, kept) ==
    CASE shown = Nobody -> "refused"
      [] shown # Nobody /\ kept = NoToken -> "lost"
      [] shown # Nobody /\ kept # NoToken /\ shown # kept.token -> "refused"
      [] shown # Nobody /\ kept # NoToken /\ shown = kept.token /\ ~kept.fresh -> "lost"
      [] OTHER -> "passed"

\* The CSRF token of a user.
Kept(u) == IF u \in DOMAIN csrf THEN csrf[u] ELSE NoToken

\* authed_mutate: a caller whose token is lost or old is refused with a new one, or with
\* none if the random source fails.
AuthedMutate(r, results) ==
    Authed(r,
        LET u == Bearer(r)
            verdict == CsrfVerdict(Header(r, "x-csrf-token", Nobody), Kept(u))
        IN CASE verdict = "passed" -> results
             [] verdict = "refused" -> {Plain(403)}
             [] OTHER -> {Result(403, Put(csrf, u, t), db) : t \in {Minted, NoToken}})

\* Any call to the database may fail.
OrFails(results) == results \cup {Plain(500)}

Json(r) == J!Parse(r.body)

-----------------------------------------------------------------------------
(* Accounts and payments                                                   *)

ValidName(s) == s \notin {"", " ", "long"}

\* escape_html, on the names of the model.
Escaped(s) == CASE s = "<" -> "&lt;" [] s = "&lt;" -> "&amp;lt;" [] OTHER -> s

\* The alphabet of addresses: letters, of which one is upper case, "1" for the digits, and
\* other characters.
Alpha == {"a", "b", "A"}

Alnum == Alpha \cup {"1"}

Lowered(e) == [i \in DOMAIN e |-> IF e[i] = "A" THEN "a" ELSE e[i]]

\* valid_local_part, valid_domain_label
Edged(s, inner) == /\ s # <<>> /\ {Head(s), Last(s)} \subseteq Alnum
                   /\ ToSet(s) \subseteq Alnum \cup inner

\* The domain begins after the last "@", and its last label after the last dot.
ValidEmail(e) ==
    LET at == Max({0} \cup {i \in DOMAIN e : e[i] = "@"})
        dots == {i \in DOMAIN e : i > at /\ e[i] = "."}
        before(i) == Max({at} \cup {d \in dots : d < i})
        tld == SubSeq(e, before(Len(e) + 1) + 1, Len(e))
    IN /\ at > 0 /\ dots # {} /\ Len(e) <= MaxEmail
       /\ Edged(SubSeq(e, 1, at - 1), {".", "!", "-"})
       /\ \A i \in dots : Edged(SubSeq(e, before(i) + 1, i - 1), {"-"})
       /\ Len(tld) \in 2..MaxTld /\ ToSet(tld) \subseteq Alpha

ValidPassword(s) == s \notin {"", "short", "long"}

\* The letters of a string that may be an address.
Spelled(s) == IF s \in DOMAIN Letters THEN Letters[s] ELSE <<>>

\* generate_token and set_auth_cookies: a session has a new token and a new CSRF token;
\* there is none without a secret.
Session(u, status, d) ==
    IF config.jwt = "" THEN {}
    ELSE {Result(status, Put(csrf, u, Minted), [d EXCEPT !.tokens = @ \cup {JwtSign(u)}])}

\* signup: an account that was stored may be left without a session.
Signup(r) ==
    LET json == Json(r)
        typed == Spelled(J!GetStr(json, "email"))
        email == Lowered(typed)
        account == [name |-> Escaped(J!GetStr(json, "name")), pass |-> J!GetStr(json, "password")]
        with == [db EXCEPT !.accounts = Put(@, email, account)]
    IN {Plain(429)} \cup
       (IF \E key \in {"email", "password", "name"} : ~J!HasStr(json, key) THEN {Plain(400)}
        ELSE IF ~(/\ ValidEmail(typed) /\ ValidPassword(account.pass)
                  /\ ValidName(J!GetStr(json, "name"))) THEN {Plain(400)}
        ELSE IF email \in DOMAIN db.accounts THEN OrFails({Plain(400)})
        ELSE OrFails({Stored(500, with)} \cup UNION {Session(u, 201, with) : u \in NewIds}))

\* A name is checked where there is one, before the user is looked up.  The write may be
\* done although the answer is an error.
MePut(r) == AuthedMutate(r,
    LET u == Bearer(r)
        name == J!Get(Json(r), "name")
        renamed == [db EXCEPT !.name[u] = Escaped(name.s)]
    IN IF Json(r) = J!NoValue THEN {Plain(400)}
       ELSE IF name.t \notin {"none", "str"} THEN {Plain(400)}
       ELSE IF name.t = "str" /\ ~ValidName(name.s) THEN {Plain(400)}
       ELSE IF u \notin Users THEN OrFails({Plain(404)})
       ELSE IF name.t = "none" THEN OrFails({Plain(400)})
       ELSE OrFails({Stored(200, renamed), Stored(500, renamed)}))

\* redirect_origin: FRONTEND_URL, an origin on the list, or the server itself.
Home(r) == IF config.frontend # "" THEN config.frontend
           ELSE IF Header(r, "origin", "") \in config.origins \ {""} THEN Header(r, "origin", "")
           ELSE "self"

\* A session at Stripe, which may come to be though the answer is lost (StripeWorker).
Opened(u, kind, r) ==
    LET with == [db EXCEPT !.sessions = @ \cup {[user |-> u, kind |-> kind, home |-> Home(r)]}]
    IN {Stored(s, with) : s \in {200, 500, 504}} \cup {Plain(s) : s \in {500, 503, 504}}

Checkout(r) == AuthedMutate(r,
    LET u == Bearer(r)
        json == Json(r)
    IN IF config.stripe = "" THEN {Plain(503)}
       ELSE IF json = J!NoValue THEN {Plain(500)}
       ELSE IF ~(J!HasStr(json, "email") /\ J!HasStr(json, "lookup_key")) THEN {Plain(400)}
       ELSE IF J!GetStr(json, "lookup_key") \notin config.keys THEN {Plain(400)}
       ELSE IF u \notin Users \/ Email[u] # J!GetStr(json, "email") THEN OrFails({Plain(403)})
       ELSE Opened(u, "checkout", r) \cup {Plain(400)})

\* The Stripe customer on record for the user, and not a blank one.
OwnCustomer(u, customer) == u \in Users /\ Customer[u] # "" /\ Customer[u] = customer

Portal(r) == AuthedMutate(r,
    LET u == Bearer(r)
        json == Json(r)
    IN IF config.stripe = "" THEN {Plain(503)}
       ELSE IF json = J!NoValue THEN {Plain(500)}
       ELSE IF ~J!HasStr(json, "customerID") THEN {Plain(400)}
       ELSE IF ~OwnCustomer(u, J!GetStr(json, "customerID")) THEN OrFails({Plain(403)})
       ELSE OrFails(Opened(u, J!GetStr(json, "customerID"), r)))

\* verify_signature: the first timestamp is recent, and one of the signatures is that of
\* the timestamp and the bytes of the body.
Verified(header, payload) ==
    /\ header.v1 # <<>> /\ header.t # <<>> /\ header.t[1] \in Int \ {NotANumber}
    /\ Now - header.t[1] \in (-Tolerance)..Tolerance
    /\ Signature(config.endpoint, <<header.t[1], payload>>) \in ToSet(header.v1)

NoHeader == [t |-> <<>>, v1 |-> <<>>]

\* The webhook: an event that is ours to believe (what it does is the subject of Webhook).
Payment(r) ==
    LET header == Header(r, "stripe-signature", NoHeader)
        event == Json(r)
    IN IF config.stripe = "" THEN {Plain(503)}
       ELSE IF header = NoHeader THEN {Plain(400)}
       ELSE IF config.endpoint = "" THEN {Plain(503)}
       ELSE IF ~Verified(header, r.body) THEN {Plain(400)}
       ELSE IF ~J!HasStr(event, "id") THEN {Plain(400)}
       ELSE OrFails({Stored(200, [db EXCEPT !.events = @ \cup {r.body}])})

-----------------------------------------------------------------------------
(* Spots and bookings                                                      *)

\* merged_text, merged_zip, merged_number: a string or a number as it is, what was there
\* where the member is absent or null, and nothing valid for any other value.
MergedText(json, key, old) == LET v == J!Get(json, key)
                              IN CASE v.t = "str" -> v.s
                                   [] v.t \in {"none", "null"} -> old
                                   [] OTHER -> ""

ZipText(n) == IF n = 2 * 12345 THEN "12345" ELSE "1"

MergedZip(json, old) == LET v == J!Get(json, "zipcode")
                        IN IF J!Finite(v) /\ v.n % 2 = 0 THEN ZipText(v.n)
                           ELSE MergedText(json, "zipcode", old)

NoNumber == -1

MergedNumber(json, key, old) == LET v == J!Get(json, key)
                                IN CASE J!Finite(v) -> v.n
                                     [] v.t \in {"none", "null"} -> old
                                     [] OTHER -> NoNumber

MergedAvailable(json, old) == LET v == J!Get(json, "isAvailable")
                              IN IF v.t = "bool" THEN v.b ELSE old

Blank(u) == [owner |-> u, title |-> "", zip |-> "", price |-> NoNumber, available |-> TRUE]

\* read_spot_draft, with one member of each kind.
Draft(json, old) == [owner |-> old.owner,
                     title |-> MergedText(json, "title", old.title),
                     zip |-> MergedZip(json, old.zip),
                     price |-> MergedNumber(json, "price", old.price),
                     available |-> MergedAvailable(json, old.available)]

GoodTitle(s) == s \notin {"", "x"}

GoodZip(s) == s \in {"12345", "12345-6789"}

GoodPrice(n) == 0 < n /\ n < 2 * MaxPrice

\* validate_spot_place and validate_spot_rates: the first thing wrong with it.
Wrong(spot) == CASE ~GoodTitle(spot.title) -> "title"
                 [] GoodTitle(spot.title) /\ ~GoodZip(spot.zip) -> "zip"
                 [] GoodTitle(spot.title) /\ GoodZip(spot.zip) /\ ~GoodPrice(spot.price) -> "price"
                 [] OTHER -> "nothing"

SpotsCreate(r) == AuthedMutate(r,
    LET u == Bearer(r)
        spot == Draft(Json(r), Blank(u))
    IN IF Json(r) = J!NoValue THEN {Plain(400)}
       ELSE IF Wrong(spot) # "nothing" THEN {Plain(400)}
       ELSE OrFails({Stored(s, [db EXCEPT !.spots = Put(@, id, spot)]) :
                        s \in {201, 500}, id \in NewIds \ DOMAIN db.spots}))

Owned(u, id) == id \in DOMAIN db.spots /\ db.spots[id].owner = u

\* A zipcode that is wrong is reported as an error of the server.
SpotsUpdate(r, id) == AuthedMutate(r,
    LET u == Bearer(r)
        spot == Draft(Json(r), db.spots[id])
    IN IF Json(r) = J!NoValue THEN {Plain(400)}
       ELSE IF ~Owned(u, id) THEN OrFails({Plain(404)})
       ELSE IF Wrong(spot) \in {"title", "price"} THEN {Plain(400)}
       ELSE IF Wrong(spot) = "zip" THEN {Plain(500)}
       ELSE OrFails({Stored(s, [db EXCEPT !.spots[id] = spot]) : s \in {200, 500}}))

SpotsDelete(r, id) == AuthedMutate(r,
    LET u == Bearer(r) IN
    IF Owned(u, id)
    THEN OrFails({Stored(204, [db EXCEPT !.spots =
                                  [i \in DOMAIN db.spots \ {id} |-> db.spots[i]]])})
    ELSE OrFails({Plain(404)}))

\* Faulty variant: the conversion wraps around where it should saturate.
Wrapped(n) == LET w == IF n < 0 THEN -((-n) \div 2) ELSE n \div 2
              IN ((w + Wide) % (2 * Wide)) - Wide

\* `as i64`: the fraction is cut off, and what does not fit is the largest or smallest.
Truncated(n) == LET w == IF n < 0 THEN -((-n) \div 2) ELSE n \div 2
                IN Max({-Wide, Min({w, Wide})})

\* booking_window: the order and the length are checked on the numbers as they came.
GoodWindow(json) ==
    LET in == J!Get(json, "timeIn")
        out == J!Get(json, "timeOut")
    IN /\ J!GetStr(json, "spotId") # "" /\ J!Finite(in) /\ J!Finite(out)
       /\ out.n > in.n /\ out.n - in.n <= 2 * MaxBooking

\* booking_total: by the length, but no less than the shortest that is billed.
Total(price, in, out) == price * Max({out - in, 1})

BookingsCreate(r) == AuthedMutate(r,
    LET u == Bearer(r)
        json == Json(r)
        id == J!GetStr(json, "spotId")
        in == Truncated(J!Get(json, "timeIn").n)
        out == Truncated(J!Get(json, "timeOut").n)
        booking == [spot |-> id, user |-> u, in |-> in, out |-> out,
                    price |-> db.spots[id].price, total |-> Total(db.spots[id].price, in, out)]
    IN IF json = J!NoValue \/ ~GoodWindow(json) THEN {Plain(400)}
       ELSE IF id \notin DOMAIN db.spots THEN OrFails({Plain(400)})
       ELSE IF ~db.spots[id].available THEN {Plain(400)}
       ELSE OrFails({Stored(201, [db EXCEPT !.bookings = @ \cup {booking}])}))

-----------------------------------------------------------------------------
(* The routes                                                              *)

SpotId(segs) == IF Len(segs) = 3 /\ SubSeq(segs, 1, 2) = <<"api", "spots">> THEN segs[3] ELSE ""

\* signin, whose own module is SignIn.
Signin == {Plain(s) : s \in {400, 401, 429, 500}} \cup UNION {Session(u, 200, db) : u \in Users}

Signout(r) == AuthedMutate(r, {Result(200, Put(csrf, Bearer(r), NoToken), db)})

\* Reads, which change nothing.
ReadOnly(r, statuses) == Authed(r, {Plain(s) : s \in statuses \cup {500}})

Post(r, segs) ==
    CASE segs = <<"api", "payment">> -> Payment(r)
      [] segs = <<"api", "signup">> -> Signup(r)
      [] segs = <<"api", "signin">> -> Signin
      [] segs = <<"api", "signout">> -> Signout(r)
      [] segs = <<"api", "usage">> -> AuthedMutate(r, {Plain(s) : s \in {200, 429, 500}})
      [] segs = <<"api", "checkout">> -> Checkout(r)
      [] segs = <<"api", "portal">> -> Portal(r)
      [] segs = <<"api", "spots">> -> SpotsCreate(r)
      [] segs = <<"api", "bookings">> -> BookingsCreate(r)
      [] OTHER -> {Plain(404)}

\* Files, and the page of the application for what is neither a file nor named like one.
Page(segs) == IF segs \in Files THEN 200
              ELSE IF segs # <<>> /\ Head(segs) = "api" THEN 404
              ELSE IF segs # <<>> /\ Last(segs) = "x.js" THEN 404 ELSE 200

Fetch(r, segs) ==
    CASE segs = <<"api", "health">> -> {Plain(200), Plain(503)}
      [] segs = <<"api", "me">> -> ReadOnly(r, {200, 404})
      [] segs \in {<<"api", "spots">>, <<"api", "spots", "mine">>, <<"api", "bookings">>} ->
            ReadOnly(r, {200})
      [] SpotId(segs) \notin {"", "mine"} ->
            ReadOnly(r, {IF SpotId(segs) \in DOMAIN db.spots THEN 200 ELSE 404})
      [] OTHER -> {Plain(Page(segs))}

\* handle and dispatch.
Dispatch(r) ==
    LET segs == r.line.target.segs
        method == r.line.method
    IN CASE method = "OPTIONS" -> {Plain(204)}
         [] method = "POST" -> Post(r, segs)
         [] method = "GET" -> Fetch(r, segs)
         [] method = "HEAD" -> {Plain(Page(segs))}
         [] method = "PUT" -> IF segs = <<"api", "me">> THEN MePut(r)
                              ELSE IF SpotId(segs) # "" THEN SpotsUpdate(r, SpotId(segs))
                              ELSE {Plain(404)}
         [] method = "DELETE" -> IF SpotId(segs) # "" THEN SpotsDelete(r, SpotId(segs))
                                 ELSE {Plain(404)}
         [] OTHER -> {Plain(404)}

\* The handler runs, or panics before it has done anything, which is answered with 500.
Respond == /\ stage = "handle"
           /\ \E res \in Dispatch(Request) \cup {Plain(500)} :
                 Answer(res.status) /\ csrf' = res.csrf /\ db' = res.db
           /\ UNCHANGED <<machine, config>>

-----------------------------------------------------------------------------
(* What there is to begin with                                             *)

\* An address of one spelling: one "@" with something on both sides, and a dot after it;
\* from there on each dot stands between letters or digits.
IsAddress(e) ==
    \E at \in DOMAIN e :
        /\ {i \in DOMAIN e : e[i] = "@"} = {at} /\ {1, Len(e)} \cap {at} = {}
        /\ \A i \in DOMAIN e : /\ e[i] \notin {" ", "A"}
                               /\ e[i] \in {".", "@"} /\ i >= at => {e[i - 1], e[i + 1]} \subseteq Alnum
        /\ "." \in ToSet(SubSeq(e, at, Len(e)))

\* Accounts, spots and bookings in order.
SoundRows(d) ==
    /\ \A e \in DOMAIN d.accounts : IsAddress(e) /\ d.accounts[e].name # "<"
    /\ \A i \in DOMAIN d.spots :
          /\ d.spots[i].title \notin {"", "x"} /\ d.spots[i].zip \in {"12345", "12345-6789"}
          /\ d.spots[i].price \in 1..(2 * MaxPrice - 1)
    /\ \A b \in d.bookings : /\ b.out - b.in \in 0..MaxBooking
                              /\ b.total \in b.price..(b.price * MaxBooking)

Tables(d) == d = [name |-> d.name, accounts |-> d.accounts, tokens |-> d.tokens, spots |-> d.spots,
                  bookings |-> d.bookings, sessions |-> d.sessions, events |-> d.events]

ASSUME DbAssumption == Tables(InitDb) /\ SoundRows(InitDb) /\ InitDb.tokens = {}

\* A cookie header is a sequence; the claims of a token are JSON, if it has any.
IsClaims(v) == \/ v = J!NoValue
               \/ v = J!Obj(v.o) /\ \A key \in DOMAIN v.o : J!IsValue(v.o[key])

IsCookies(pairs) ==
    /\ pairs \in Seq(ToSet(pairs))
    /\ \A p \in ToSet(pairs) : Len(p) = 2 /\ p[1] = "token" => IsClaims(p[2].claims)

ASSUME ClientsAssumption ==
    \A s \in Scripts : \A x \in ToSet(Wire(s)) :
        x.k = "field" /\ x.name = "cookie" => IsCookies(x.value)

ASSUME StringsAssumption ==
    /\ Nobody \notin Users \cup NewIds
    /\ \A s \in DOMAIN Letters : Letters[s] \in Seq(ToSet(Letters[s]))

ASSUME LimitsAssumption ==
    /\ {Now, TokenLife, MaxSafe, Tolerance, MaxEmail, MaxTld, Wide, MaxBooking, MaxPrice} \subseteq Nat
    /\ Now + TokenLife < MaxSafe /\ MaxBooking > 0

ServiceInit == /\ ConnInit
               /\ machine \in MachinesFor(script) /\ config \in Boots(machine)
               /\ csrf \in CsrfFor(script) /\ db = InitDb

ServiceNext == \/ ConnStep /\ UNCHANGED serviceVars
               \/ Respond

ServiceSpec == ServiceInit /\ [][ServiceNext]_allVars

-----------------------------------------------------------------------------
(* Properties                                                              *)

\* The user a request speaks for and has shown to: a signed token that has not run out,
\* in a cookie, and in a header the fresh CSRF token of that user.  In production nobody
\* can guess what it was signed with.
Proven(r, u) ==
    /\ config.jwt # ""
    /\ machine.prod => config.jwt \notin {"short", "template"}
    /\ \E i \in DOMAIN r.fields :
          /\ r.fields[i].k = "field" /\ r.fields[i].name = "cookie"
          /\ \E pair \in ToSet(r.fields[i].value) :
                /\ Len(pair) = 2 /\ pair[1] = "token"
                /\ pair[2].sig = Signature(config.jwt, pair[2].claims)
                /\ pair[2].claims.o["userID"].s = u
                /\ "exp" \in DOMAIN pair[2].claims.o =>
                      pair[2].claims.o["exp"] \in {J!Null, J!Num(0)}
                         \cup {J!Num(2 * e) : e \in Now..(MaxSafe - 1)}
    /\ Header(r, "x-csrf-token", "") = csrf[u].token /\ csrf[u].fresh

\* Whom the request speaks for.
By(r, u) == u \in DOMAIN csrf /\ Proven(r, u)

\* What a request may have done where d is stored after it.
Named(r, d) == \A u \in Users : d.name[u] # db.name[u] => By(r, u)

Billed(r, d) == \A s \in d.sessions \ db.sessions :
                    /\ By(r, s.user) /\ s.home \in (config.origins \cup {"self", config.frontend}) \ {""}
                    /\ s.kind \in {"checkout", Customer[s.user]}

Booked(r, d) == \A b \in d.bookings \ db.bookings : By(r, b.user)

Untouched(d) == \A e \in DOMAIN db.accounts : d.accounts[e] = db.accounts[e]

Placed(r, d) ==
    \A i \in DOMAIN db.spots \cup DOMAIN d.spots :
        IF i \notin DOMAIN d.spots THEN By(r, db.spots[i].owner)
        ELSE (i \notin DOMAIN db.spots \/ db.spots[i] # d.spots[i]) =>
                /\ By(r, d.spots[i].owner)
                /\ i \in DOMAIN db.spots => db.spots[i].owner = d.spots[i].owner

Heard(r, d) ==
    d.events # db.events => \E t \in (Now - Tolerance)..(Now + Tolerance) :
        Signature(config.endpoint, <<t, r.body>>) \in ToSet(Header(r, "stripe-signature", NoHeader).v1)

Earned(r, d) == /\ Named(r, d) /\ Billed(r, d) /\ Booked(r, d)
                /\ Untouched(d) /\ Placed(r, d) /\ Heard(r, d)

\* A sign-up touches no account that is there, however its address is spelled; whatever
\* else a request changes in the database belongs to a user it has proven to speak
\* for, or is an event that Stripe has signed a moment ago, byte for byte; and the
\* browser is sent back to one of our own pages.
WritesEarned == [][Earned(Request, db')]_allVars

\* Whatever the bodies say and leave out, in one request after another: a spot that is
\* stored is complete and within its limits, and a booking does not end before it begins,
\* lasts no longer than a week and is billed for the shortest time at least; the name of
\* an account holds no markup, its address is an address, and in one spelling only; and
\* every token that was handed out opens a session.
RowsSound == SoundRows(db) /\ \A t \in db.tokens : Subject(t) # Nobody
=============================================================================
