---------------------------- MODULE SellerRoutes ----------------------------
(***************************************************************************)
(* The paid routes of examples/seller.mjs: for each the inputs on which    *)
(* its validate lets a request go on to the payment, and the inputs on     *)
(* which its buildResult, which runs when the payment is settled, may      *)
(* throw. A request that is validated and paid should fail there only      *)
(* because a service the route asks did not answer.                        *)
(*                                                                         *)
(* An input is a class of query for each parameter of the route. The       *)
(* libraries a route renders with (marked, qrcode, diff) are external:     *)
(* they accept every string of the permitted length.                       *)
(***************************************************************************)
EXTENDS FiniteSets

\* undefined or empty; repeated, so an array; a string beyond the maximum; a
\* string that the route's own check refuses; any other string
Classes == {"absent", "list", "long", "odd", "good"}

\* what requireStringParam lets through, for the route's own check to look at
requireStringParam == Classes \ {"absent", "list", "long"}

\* accepts: of validate; throws: of buildResult, the other parameters being good
Param(accepts, throws) == [accepts |-> accepts, throws |-> throws]

\* a parameter whose value is parsed: buildResult parses it again, unchecked
Parsed == Param(requireStringParam \ {"odd"}, Classes \ {"good"})
\* a text that is used as it is
Text == Param(requireStringParam, {"absent", "list"})

Pure(params) == [params |-> params, upstream |-> FALSE]
Asking(params) == [params |-> params, upstream |-> TRUE]

Quote == Pure([topic |-> Param(Classes, {})])

\* the address is a segment of the path; Horizon knows the account or not
Inspect == Asking([address |-> Param({"good"}, {})])

\* an amount of any length; usdcToStroops gives null for what it refuses
Stroops == Pure([usdc |-> Param({"long", "good"}, {"absent", "list", "odd"})])

Hash == Pure([input |-> Text])

\* no validate: the route has no parameter
Timestamp == Asking(<<>>)

\* good input: its characters are base64, or the mode is encode
Base64 ==
  Pure([mode |-> Param({"good"}, {}), input |-> Param({"good"}, {"absent"})])

WordCount == Pure([text |-> Text])

Uuid == Pure(<<>>)

\* a code holds the 500 characters that are permitted, but not any length
Qr == Pure([text |-> Param(requireStringParam, {"absent", "list", "long"})])

Color == Pure([color |-> Parsed])

Markdown == Pure([markdown |-> Text])

Diff == Pure([original |-> Text, revised |-> Text])

\* good pattern: one that compiles with these flags; the g that is added to
\* them by buildResult makes no difference to that
Regex ==
  Pure([pattern |-> Param(requireStringParam \ {"odd"}, {"list", "long", "odd"}),
        text |-> Text,
        flags |-> Param({"absent", "good"}, {"long", "odd"})])

Lorem == Pure([paragraphs |-> Param({"absent", "good"}, {"long", "odd"})])

\* good text: a header row and a data row; headers of no row are undefined
Csv == Pure([csv |-> Param(requireStringParam \ {"odd"}, {"absent", "list", "odd"})])

\* words: a count that is not one leaves the passphrase empty or very long
Password ==
  Pure([words |-> Param({"absent", "good"}, {"long", "odd"}),
        separator |-> Param({"absent", "odd", "good"}, {})])

Cron == Pure([expression |-> Parsed])

\* good units: known, and of one dimension
Units ==
  Pure([value |-> Param(requireStringParam \ {"odd"}, {}),
        from |-> Parsed, to |-> Parsed])

\* the city is geocoded, and then its weather asked for; that there is no such city
\* is an answer of the first service, and counts as upstream
Weather == Asking([city |-> Text])

Routes ==
  {Quote, Inspect, Stroops, Hash, Timestamp, Base64, WordCount, Uuid, Qr, Color,
   Markdown, Diff, Regex, Lorem, Csv, Password, Cron, Units, Weather}

Queries(route) == [DOMAIN route.params -> Classes]

Validates(route, query) ==
  \A p \in DOMAIN route.params : query[p] \in route.params[p].accepts

\* buildResult may throw on its input alone
Throws(route, query) ==
  \E p \in DOMAIN route.params : query[p] \in route.params[p].throws

\* what the handler's course depends on
InputsOf(route) ==
  {[valid |-> Validates(route, query), throws |-> Throws(route, query),
    upstream |-> route.upstream] : query \in Queries(route)}

Inputs == UNION {InputsOf(route) : route \in Routes}
=============================================================================
