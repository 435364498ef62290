----------------------------- MODULE MCService -----------------------------
(* Connections that differ in how their messages are framed, followed by a
   request that must be seen as such or not at all; and connections with one
   or two messages for each of the routes. *)
EXTENDS Service

T == INSTANCE JsonText

Segs(a, b) == <<a, b>>

Message(method, segs, flds, framing, pieces) ==
    [line |-> RequestLine(method, [form |-> "origin", segs |-> segs], "HTTP/1.1"),
     fields |-> flds, framing |-> framing, pieces |-> pieces,
     strays |-> 0, trailers |-> <<>>, fault |-> "none"]

Probe == Message("GET", <<"api", "health">>, <<>>, "none", <<>>)

Decoy == <<RequestLine("DELETE", [form |-> "origin", segs |-> <<"x">>], "HTTP/1.1"), EndOfLine>>

Sends(framing, pieces) == Message("POST", <<"x">>, <<>>, framing, pieces)

Framings ==
    {[Sends("length", <<Decoy>>) EXCEPT !.strays = 2],
     Sends("chunked", <<Decoy, <<ChunkSize(0)>>>>),
     [Sends("chunked", <<>>) EXCEPT !.trailers = <<Field("content-length", "1")>>],
     Sends("length", <<>>),
     [Sends("none", <<>>) EXCEPT !.line.target.form = "asterisk", !.line.method = "OPTIONS"],
     [Sends("length", <<Decoy>>) EXCEPT !.fields = <<Field("expect", "100-continue")>>],
     [Probe EXCEPT !.fields = <<Field("connection", "close")>>],
     [Probe EXCEPT !.line.version = "HTTP/1.0"],
     [Probe EXCEPT !.line.version = "HTTP/1.0", !.fields = <<Field("connection", "keep-alive")>>]}

Faulty == {[Probe EXCEPT !.fault = f] : f \in FirstFaults \cup LineFaults}
          \cup {[Sends("chunked", <<Decoy>>) EXCEPT !.fault = f] : f \in BodyFaults}

Jwt(key, o) == [parts |-> 3, claims |-> J!Obj(o), sig |-> Signature(key, J!Obj(o))]

Claims(u) == [userID |-> J!Str(u)]

Expiring(u, n) == [userID |-> J!Str(u), exp |-> J!Num(n)]

Tokens == {Jwt("jwt", Claims("u")), Jwt("jwt", Expiring("u", 2 * Now)),
           Jwt("jwt", Expiring("u", 2 * Now - 2)), Jwt("jwt", Expiring("u", 2 * Now + 1)),
           Jwt("jwt", Expiring("u", 2 * MaxSafe)), Jwt("jwt", Expiring("u", 0)),
           Jwt("other", Claims("u")), [Jwt("jwt", Claims("u")) EXCEPT !.claims = J!Obj(Claims("v"))],
           [Jwt("jwt", Claims("u")) EXCEPT !.parts = 2], Jwt("jwt", Claims("ghost")),
           Jwt("jwt", Claims("v"))}

Good == Jwt("jwt", Claims("u"))

Cookies(pairs) == Field("cookie", pairs)

Carries(jwt) == Cookies(<< <<"csrf_token", "t">>, <<"token", jwt>> >>)

SignedIn == <<Carries(Good), Field("x-csrf-token", "t")>>

Sent(method, segs, flds, v) == Message(method, segs, flds, "length", <<T!Text(v)>>)

One(key, v) == J!Obj([x \in {key} |-> v])

Rename(flds) == Sent("PUT", <<"api", "me">>, flds, One("name", J!Str("<")))

\* Whose request it is, with everything that may be wrong about that.
Guards ==
    {Rename(<<Carries(t), Field("x-csrf-token", "t")>>) : t \in Tokens}
    \cup {Rename(<<Carries(Good)>>), Rename(<<Carries(Good), Field("x-csrf-token", "old")>>),
          Rename(<<Field("x-csrf-token", "t")>>),
          Rename(<<Cookies(<< <<"junk">>, <<"token", Good>> >>), Field("x-csrf-token", "t")>>),
          Rename(<<Cookies(<< <<"token", Good>>, <<"junk">> >>), Field("x-csrf-token", "t")>>)}

Accounts ==
    {Sent("PUT", <<"api", "me">>, SignedIn, v) : v \in
        {One("name", J!Str("")), One("name", J!Null), J!Arr(<<>>), One("nick", J!Bool(TRUE)),
         J!Arr(<<J!Arr(<<J!Null>>), J!Num(1)>>), One("name", J!Str("&lt;"))}}
    \cup {Message("PUT", <<"api", "me">>, SignedIn, "length", <<b>>) : b \in
            {<<J!Mark("[")>>, <<J!Word("nul")>>, T!Text(J!Null) \o <<J!Mark("]")>>,
             <<EndOfLine>> \o T!Text(One("name", J!Str("A"))) \o <<EndOfLine>>}}
    \cup {Message("GET", segs, SignedIn, "none", <<>>) : segs \in
            {<<"api", "me">>, <<"api", "spots">>, <<"api", "spots", "s">>, <<"api", "spots", "none">>,
             <<"api", "other">>, <<>>, <<"x.js">>, <<"app.js">>}}
    \cup {Message("HEAD", <<>>, <<>>, "none", <<>>), Message("PATCH", <<"api", "me">>, SignedIn, "none", <<>>),
          Message("PUT", <<"x">>, SignedIn, "none", <<>>), Message("DELETE", <<"x">>, SignedIn, "none", <<>>),
          Message("POST", <<"api", "signin">>, <<>>, "none", <<>>),
          Message("POST", <<"api", "signout">>, SignedIn, "none", <<>>),
          Message("POST", <<"api", "usage">>, SignedIn, "none", <<>>)}

\* Sign-ups: the addresses are spelled out below.
Account(email, name, pass) == J!Obj([email |-> J!Str(email), name |-> J!Str(name), password |-> J!Str(pass)])

SignsUp(v) == Sent("POST", <<"api", "signup">>, <<>>, v)

MCLetters == [taken |-> <<"a", "@", "b", ".", "a", "a">>, TAKEN |-> <<"A", "@", "b", ".", "a", "a">>,
              new |-> <<"b", ".", "b", "@", "b", "-", "b", ".", "A", "a">>,
              deep |-> <<"1", "@", "1", ".", "b", ".", "a", "a">>,
              bare |-> <<"b">>, twice |-> <<"b", "@", "b", "@", "b", ".", "a", "a">>,
              nodot |-> <<"b", "@", "a", "a">>, dots |-> <<"b", "@", "b", ".", ".", "a", "a">>,
              hyphen |-> <<"b", "@", "b", "-", ".", "a", "a">>, nobody |-> <<"@", "b", ".", "a", "a">>,
              dot |-> <<".", "b", "@", "b", ".", "a", "a">>, digit |-> <<"b", "@", "b", ".", "1", "a">>, brief |-> <<"b", "@", "b", ".", "a">>, wide |-> <<"b", "@", "b", ".", "a", "a", "a", "a">>,
              blank |-> <<"b", " ", "b", "@", "b", ".", "a", "a">>,
              endless |-> <<"b", "b", "b", "b", "b", "b", "@", "b", ".", "a", "a">>]

Signups == {SignsUp(Account(e, "<", "pass")) : e \in DOMAIN MCLetters}
           \cup {SignsUp(Account("new", n, "pass")) : n \in {"", "long"}}
           \cup {SignsUp(Account("new", "A", p)) : p \in {"short", "long"}}
           \cup {SignsUp(One("email", J!Str("new")))}

\* What is tried on every machine.
Forged == Jwt("template", Claims("u"))

Order(email, key) == J!Obj([email |-> J!Str(email), lookup_key |-> J!Str(key)])

Event == T!Text(One("id", J!Str("e")))

Hook(t, signed, content) ==
    Message("POST", <<"api", "payment">>,
            <<Field("stripe-signature", [t |-> t, v1 |-> <<Signature("old", <<>>),
                                                          Signature("hook", signed)>>])>>,
            "length", <<content>>)

Payments ==
    {Sent("POST", <<"api", "checkout">>, SignedIn \o <<Field("origin", "app")>>, v) : v \in
        {Order("u@x", "gold"), Order("v@x", "gold"), Order("u@x", "free"), One("email", J!Str("u@x"))}}
    \cup {Sent("POST", <<"api", "portal">>, <<Carries(t), Field("x-csrf-token", "t"), Field("origin", "far")>>,
               One("customerID", J!Str(c))) : t \in {Good, Jwt("jwt", Claims("v"))}, c \in {"", "cus"}}
    \cup {Hook(<<Now>>, <<Now, Event>>, Event), Hook(<<Now - 3>>, <<Now - 3, Event>>, Event),
          Hook(<<Now, Now - 3>>, <<Now - 3, Event>>, Event), Hook(<<>>, <<Now, Event>>, Event),
          Hook(<<Now>>, <<Now, Event>>, T!Text(One("id", J!Str("f")))),
          Hook(<<Now>>, <<Now, <<J!Mark("{")>>>>, <<J!Mark("{")>>),
          Message("POST", <<"api", "payment">>, <<>>, "none", <<>>)}

Buys == Order("u@x", "gold")

Visits ==
    {<<Rename(<<Carries(t), Field("x-csrf-token", "t")>>)>> : t \in {Good, Forged}}
    \cup {<<Sent("POST", <<"api", "checkout">>, SignedIn \o <<Field("origin", o)>>, Buys)>> : o \in {"app", ""}}
    \cup {<<Hook(<<Now>>, <<Now, Event>>, Event)>>, <<SignsUp(Account("new", "A", "pass"))>>}

Spot(title, zip, price) == [title |-> title, zipcode |-> zip, price |-> price]

Window(spot, in, out) == J!Obj([spotId |-> J!Str(spot), timeIn |-> J!Num(in), timeOut |-> J!Num(out)])

Creates == {Sent("POST", <<"api", "spots">>, SignedIn, J!Obj(o)) : o \in
               {Spot(J!Str("title"), J!Num(2 * 12345), J!Num(1)),
                Spot(J!Str("title"), J!Num(2 * 12345 + 1), J!Num(1)),
                Spot(J!Str("title"), J!Num(2 * 12345), J!Num(Infinity)),
                Spot(J!Str("x"), J!Str("12345"), J!Num(1)), Spot(J!Str("title"), J!Str("12345"), J!Null)}}

Updates == {Sent("PUT", <<"api", "spots", id>>, SignedIn, o) : id \in {"s", "foreign", "none"},
               o \in {One("price", J!Num(2 * MaxPrice)), One("price", J!Num(3)),
                      One("zipcode", J!Bool(TRUE)), One("title", J!Bool(FALSE)),
                      One("isAvailable", J!Bool(FALSE))}}

Deletes == {Message("DELETE", <<"api", "spots", id>>, SignedIn, "none", <<>>) : id \in {"s", "foreign"}}

Bookings == {Sent("POST", <<"api", "bookings">>, SignedIn, Window(w[1], w[2], w[3])) : w \in
               {<<"s", 2, 6>>, <<"s", 2, Infinity>>, <<"s", 2, 3>>, <<"s", -1, 1>>, <<"s", 2, 2>>, <<"none", 2, 4>>,
                <<"s", 2 * Wide - 1, 2 * Wide + 3>>, <<"s", 1, 1 + 2 * MaxBooking>>,
                <<"s", 1, 2 + 2 * MaxBooking>>}}

MCScripts == {<<m, Probe>> : m \in Framings \cup Faulty}
             \cup {<<m>> : m \in Guards \cup Accounts \cup Signups \cup Payments \cup Creates
                                 \cup Updates \cup Deletes \cup Bookings}
             \cup Visits

\* Machines: one that is set up for production, and others that are not, or badly.
Settings == [database |-> J!Obj([db |-> J!Str("spots"), dbType |-> J!Str("sqlite"),
                                 connectionString |-> J!Str("${DB_FILE}")])]

Products == One("stripeProducts", J!Arr(<<One("lookup_key", J!Str("gold")), One("lookup_key", J!Null)>>))

Shell == [JWT_SECRET |-> "jwt", STRIPE_KEY |-> "sk", STRIPE_ENDPOINT_SECRET |-> "hook",
          CORS_ORIGINS |-> "app,"]

Production == [prod |-> TRUE, shell |-> Shell, env |-> Missing, local |-> Missing,
               example |-> Missing, config |-> T!Text(J!Obj(Settings)), constants |-> T!Text(Products)]

Template == File(<<Skipped, Pair("JWT_SECRET", "template"), Pair("STRIPE_KEY", "sk"),
                   Pair("STRIPE_ENDPOINT_SECRET", "")>>)

Bare == [Production EXCEPT !.shell = [LIBSQL_URL |-> "db"], !.prod = FALSE, !.example = Template]

Without(vs, key) == [k \in DOMAIN vs \ {key} |-> vs[key]]

Others ==
    {[Production EXCEPT !.shell.JWT_SECRET = s, !.env = Template] : s \in {"", "short", "template"}}
    \cup {[Production EXCEPT !.shell = Without(Shell, "JWT_SECRET"), !.env = Template],
          [Production EXCEPT !.shell = Without(Shell, "STRIPE_KEY"), !.env = Template],
          [Production EXCEPT !.shell = Without(Shell, "CORS_ORIGINS")],
          [Production EXCEPT !.shell = [FRONTEND_URL |-> "front"] @@ Shell, !.constants = <<>>],
          [Production EXCEPT !.config = T!Text(J!Obj([Settings EXCEPT !.database.o.dbType = J!Str("mongo")]))],
          Bare, [Bare EXCEPT !.env = Link], [Bare EXCEPT !.config = <<>>, !.env = Link, !.local = Link],
          [Bare EXCEPT !.env = Template, !.local = File(<<Pair("JWT_SECRET", "short"), Pair("JWT_SECRET", "jwt"),
                                                          Pair("", "x")>>)],
          [Bare EXCEPT !.shell = Shell, !.local = Template]}

\* The theorems about Connection ask this of what clients mean to send.
ASSUME Intentions == AllOrderly /\ AllModerate

MCMachinesFor(s) == IF s \in Visits THEN Others \cup {Production} ELSE {Production}

MCEmail == [x \in Users |-> IF x = "u" THEN "u@x" ELSE "v@x"]

MCCustomer == [x \in Users |-> IF x = "u" THEN "cus" ELSE ""]

\* Where nobody is signed in, the CSRF store makes no difference; an old token is tried
\* with one kind of request.
MCCsrfFor(s) ==
    {[x \in Users \cup {"ghost"} |-> t] :
        t \in {[token |-> "t", fresh |-> TRUE]} \cup
             (IF s[1] \in Framings \cup Faulty \cup Signups THEN {} ELSE {NoToken}) \cup
             (IF s[1] \in Guards THEN {[token |-> "t", fresh |-> FALSE]} ELSE {})}

MCDb == [name |-> [x \in Users |-> "A"], accounts |-> [e \in {MCLetters["taken"]} |-> [name |-> "A", pass |-> "own"]],
         tokens |-> {}, sessions |-> {}, bookings |-> {}, events |-> {},
         spots |-> [id \in {"s", "foreign"} |->
                       [owner |-> IF id = "s" THEN "u" ELSE "v", title |-> "title", zip |-> "12345",
                        price |-> 2, available |-> TRUE]]]

MCFiles == {<<"app.js">>}
=============================================================================
