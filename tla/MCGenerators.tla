---------------------------- MODULE MCGenerators ----------------------------
(***************************************************************************)
(* Declarations of a small project for Generators: for each generator, the *)
(* forms a developer moves between, accepted ones and refused ones.        *)
(***************************************************************************)
EXTENDS GeneratedCodec, TLC

None == [k \in {} |-> ""]
MCFeatures == Kinds \ {"registry"}
MCHandFiles == {<<"dao", <<"Notes", "dao">>>>}

(* packages: cfg, a/fmt, a/work, ent/hero, ent/guild, and internal/registry *)
A == <<"a">>
HandPath(base) == <<A, base>>
FmtPath == HandPath(<<"f", "m", "t">>)
WorkPath == HandPath(<<"w", "k">>)
HeroPath == <<<<"e", "n", "t">>, <<"h">>>>
GuildPath == <<<<"e", "n", "t">>, <<"g">>>>
MCConfigPath == <<<<"c", "f", "g">>>>
MCPathOrder == <<FmtPath, WorkPath, GuildPath, HeroPath, MCConfigPath, <<<<"r", "e", "g">>>>>>
MCNumerals == [i \in 1..9 |-> IF i = 9 THEN <<"1", "0">> ELSE <<ToString(i + 1)>>]

Register(path, func, rank, options) ==
    [Marked(path, func, "component", "hand") EXCEPT !.rank = rank, !.options = options, !.results = <<"error">>]
Component(order) == [k \in {"phase", "order"} |-> IF k = "phase" THEN "component" ELSE order]
Early == Register(WorkPath, "RegisterTools", 1, Component(1))
Late == Register(FmtPath, "RegisterWords", 2, Component(2))
MCRegistry == <<
    [dir |-> "game", source |-> [functions |-> {Early, Late}, legacy |-> FALSE]],
    [dir |-> "game", source |-> [functions |-> {Early, Late, [Marked(WorkPath, "RegisterLast", "post", "hand") EXCEPT !.rank = 3]}, legacy |-> FALSE]],
    [dir |-> "game", source |-> [functions |-> {Late}, legacy |-> TRUE]],
    [dir |-> "game", source |-> [functions |-> {Early, [Late EXCEPT !.exported = FALSE]}, legacy |-> FALSE]]>>

Tag(words) == [given |-> TRUE, words |-> words]
NoTag == [given |-> FALSE, words |-> {}]
Column(name, kind, elem, tag) ==
    [name |-> name, store |-> name, kind |-> kind, key |-> "integer", elem |-> elem, tag |-> tag]
Hero == <<"Hero", "">>
Item == <<"Item", "">>
Gem == <<"Gem", "">>
Holder(name, tag) ==
    [file |-> 1, name |-> name,
     fields |-> <<Column("ID", "basic", Dao!NoName, NoTag), Column("Bag", "map", Item, tag),
                  Column("Memo", "basic", Dao!NoName, Tag({"nopersist", "sync"}))>>]
Held == <<[file |-> 1, name |-> Item, fields |-> <<Column("Count", "basic", Dao!NoName, NoTag), Column("Gem", "struct", Gem, NoTag)>>],
          [file |-> 1, name |-> Gem, fields |-> <<Column("Level", "basic", Dao!NoName, NoTag)>>]>>
DaoMark(name) == [kind |-> "dao", bare |-> FALSE, binds |-> {name}, params |-> [k \in {"coll", "db"} |-> name[1]]]
RedisMark(name, key) ==
    [kind |-> "redisdao", bare |-> FALSE, binds |-> {name}, params |-> [k \in {"key", "prefix"} |-> IF k = "key" THEN key ELSE <<"r">>]]
DaoSource(structs, markers) == [dir |-> "db/def", source |-> [structs |-> structs, markers |-> markers]]
Lord == <<"Lord", "Dao">>
Rank == <<"Rank", "">>
RankStruct == [file |-> 2, name |-> Rank, fields |-> <<Column("ID", "basic", Dao!NoName, NoTag)>>]
MCDao == <<
    DaoSource(<<Holder(Hero, NoTag)>> \o Held, {DaoMark(Hero)}),
    DaoSource(<<Holder(Lord, Tag({"persist", "map=fast"})), RankStruct>>, {DaoMark(Lord), RedisMark(Rank, <<"ID">>)}),
    DaoSource(<<Holder(Hero, Tag({"map=fast"}))>> \o Held, {DaoMark(Hero)}),
    DaoSource(<<Holder(Hero, NoTag), RankStruct>> \o Held, {DaoMark(Hero), RedisMark(Rank, <<"Owner", "ID">>)})>>

Struct(suffix) == [file |-> "plain", struct |-> TRUE, prefix |-> TRUE, suffix |-> suffix]
Deals(receiver, suffix, order) ==
    [dir |-> "hero", receiver |-> receiver, file |-> "plain", prefix |-> TRUE, suffix |-> suffix, upper |-> TRUE, order |-> order]
Events(dir, structs, methods) ==
    [dir |-> dir, source |-> [structs |-> structs, methods |-> methods, broken |-> "no"]]
PlayerDeals == {Deals("Player", "Login", 1), Deals("Player", "Logout", 2)}
MCEvent == <<
    Events("event/def", <<Struct("Login"), Struct("Logout"), Struct("Data")>>, PlayerDeals),
    Events("game/handler", <<Struct("Login"), Struct("Logout")>>, PlayerDeals \union {Deals("Guild", "Login", 1)}),
    Events("event/def", <<Struct("Login")>>, PlayerDeals),
    Events("event/def", <<>>, {})>>

Code(code, name, literal, file) == [code |-> code, name |-> name, literal |-> literal, file |-> file]
Basic == {Code(2, "Full", TRUE, "bag"), Code(1, "Denied", TRUE, "login"), Code(1, "Computed", FALSE, "bag")}
MCErrcode == <<
    [dir |-> "game", source |-> Basic],
    [dir |-> "service", source |-> Basic \union {Code(3, "Late", TRUE, "login")}],
    [dir |-> "game", source |-> Basic \union {Code(2, "Empty", TRUE, "login")}]>>

IntType == <<"scalar", "int">>
Message(name, fields) == [name |-> name, fields |-> fields]
Member(name, number, oneof, type) == [name |-> name, number |-> number, oneof |-> oneof, type |-> type]
Small == Message("Small", <<Member("N", 1, "", IntType)>>)
Ping == Message("Ping", <<Member("Id", 1, "", IntType), Member("Items", 2, "", <<"repeated", "named", "Small", TRUE>>),
                          Member("Nums", 3, "", <<"repeated">> \o IntType), Member("Book", 4, "", <<"map", "int", "named", "Small", TRUE>>),
                          Member("A", 5, "body", IntType), Member("B", 6, "body", <<"named", "Small", TRUE>>),
                          Member("Hue", 7, "", <<"named", "Hue", FALSE>>)>>)
Method(name, id, req, resp, handler) ==
    [name |-> name, id |-> id, req |-> req, resp |-> resp, handler |-> handler, group |-> ""]
Const(type, expr, name) == [type |-> type, expr |-> expr, name |-> name]
Hues == <<Const("Hue", <<"iota", 0>>, "Red"), Const("Other", <<"int", 7>>, "Version"), Const("Hue", <<"iota", 0>>, "Blue"),
          Const("", Protocol!NoExpr, "Green")>>
Wire(structs, methods) ==
    [dir |-> "protocol/def", source |-> [enums |-> {"Hue"}, blocks |-> <<Hues>>, structs |-> structs, methods |-> methods]]
Methods == {Method("Ping", 1, <<"Ping">>, <<"Small">>, "login"), Method("Tell", 2, <<"Small">>, <<>>, ""),
            Method("Push", 3, <<>>, <<"Ping">>, "")}
MCProtocol == <<
    Wire({Small, Ping}, Methods),
    Wire({Small, [Ping EXCEPT !.fields = Tail(@)]}, {[m EXCEPT !.handler = "chat"] : m \in Methods}),
    Wire({[Small EXCEPT !.fields = @ \o <<Member("M", 1, "", IntType)>>], Ping}, Methods),
    Wire({Small, Ping}, Methods \union {Method("Again", 1, <<"Small">>, <<>>, "")}),
    Wire({}, {})>>

Word(key, value) == <<key, <<"", value>>>>
Data(field, cold) == [field |-> field, pkg |-> "db", cold |-> cold]
Being(dir, name, rank, params, daos, base) ==
    [dir |-> dir, name |-> name, rank |-> rank, gap |-> 1, struct |-> TRUE, params |-> params,
     comps |-> <<[field |-> "Move", pkg |-> "move", cold |-> FALSE]>>, daos |-> daos, base |-> base,
     methods |-> {"Base"}, imports |-> {"db", "move", "kinds", "topics"}]
Kind == <<"entityKind", <<"kinds", "K">>>>
HeroEntity == Being(HeroPath, "Hero", 1, <<Kind, Word("remote", "managed")>>, <<Data("Main", FALSE), Data("Mail", TRUE)>>, TRUE)
PetEntity == Being(HeroPath, "Pet", 2, <<Kind, Word("sync", "true"), <<"syncTopic", <<"topics", "Pet">>>>>>, <<>>, FALSE)
GuildEntity == Being(GuildPath, "Guild", 1, <<Kind, Word("lifetime", "resident")>>, <<Data("Main", FALSE)>>, FALSE)
Entities(set) == [dir |-> "game/entities", source |-> set]
MCEntity == <<
    Entities({HeroEntity, PetEntity}),
    Entities({HeroEntity, PetEntity, GuildEntity}),
    Entities({PetEntity}),
    Entities({HeroEntity, [PetEntity EXCEPT !.params = <<Kind, Word("sync", "true"), Word("syncTopic", "Capital")>>]}),
    Entities({[HeroEntity EXCEPT !.base = FALSE]})>>

Param(type, pkg, entity, group) == [type |-> type, pkg |-> pkg, entity |-> entity, group |-> group]
Handler(file, name, receiver, options, params, results) ==
    [dir |-> "handler", file |-> file, name |-> name, receiver |-> receiver, options |-> options, params |-> params,
     results |-> results, tags |-> {[alias |-> "price", types |-> <<"Price">>, words |-> <<"strong", "required">>]}, imports |-> {"hero"}]
Sold == Handler("shop", "Buy", "", None, <<Param("HeroEntity", "hero", TRUE, FALSE), Param("int", "", FALSE, FALSE)>>, <<"error">>)
Swap == Handler("shop", "Swap", "", None,
                <<Param("HeroEntity", "hero", TRUE, TRUE), Param("HeroEntity", "hero", TRUE, FALSE), Param("int", "", FALSE, FALSE)>>,
                <<"int", "string", "error">>)
Cheat == Handler("gm", "Cheat", "*GM", [k \in {"target", "durability"} |-> IF k = "target" THEN "hero" ELSE "memory"],
                 <<Param("Someone", "", FALSE, FALSE), Param("int", "", FALSE, FALSE)>>, <<"int">>)
Handlers(set) == [dir |-> "game/handler", source |-> set]
MCNest == <<
    Handlers({Sold, Swap}),
    Handlers({Sold, Swap, Cheat}),
    Handlers({Sold, [Swap EXCEPT !.imports = {}]}),
    Handlers({Cheat, [Sold EXCEPT !.file = "gm"]})>>

Attr(name) == [name |-> name, type |-> "int", exported |-> TRUE, skip |-> FALSE]
Formula(output, inputs) == [out |-> output, type |-> "int", params |-> [i \in DOMAIN inputs |-> [name |-> inputs[i], type |-> "int"]]]
Profile(gap, fields, methods) ==
    [name |-> "Fight", gap |-> gap, options |-> [k \in {} |-> 0], fields |-> fields, mask |-> TRUE, methods |-> methods]
Fields == <<Attr("Power"), Attr("Atk"), Attr("Str"), [Attr("note") EXCEPT !.exported = FALSE]>>
Powers == <<Formula("Power", <<"Atk">>), Formula("Atk", <<"Str">>)>>
Attributes(profiles) == [dir |-> "game/gameplay/attribute", source |-> profiles]
MCAttribute == <<
    Attributes({Profile(1, Fields, Powers)}),
    Attributes({Profile(2, Fields, <<Formula("Power", <<"Str", "Atk">>), Formula("Bonus", <<"Str">>)>>)}),
    Attributes({Profile(1, Fields, <<Formula("Power", <<"Atk">>), Formula("Atk", <<"Power">>)>>)}),
    Attributes({Profile(1, Fields, <<Formula("Power", <<"Luck">>)>>)}),
    Attributes({Profile(3, Fields, Powers)})>>

Route1(name, method, path, body) ==
    [dir |-> "web", pkg |-> "web", name |-> name, request |-> "raw", signature |-> TRUE,
     options |-> <<<<"method", method>>, <<"path", path>>, <<"body", body>>>>]
Login == [Route1("Login", "POST", "/login", "json") EXCEPT !.request = "LoginRequest"]
Routes(set) == [dir |-> "service", source |-> set]
MCRoute == <<
    Routes({Login}),
    Routes({Login, Route1("Status", "GET", "/status", "raw"), [Login EXCEPT !.dir = "admin", !.pkg = "admin"]}),
    Routes({Login, Route1("Relogin", "POST", "/login", "raw")}),
    Routes({Login, Route1("Status", "GET", "/status", "json")}),
    Routes({})>>

Arg(name, type) == [name |-> name, json |-> name, type |-> type]
Send(type) ==
    [name |-> "Send", ctx |-> TRUE, err |-> TRUE, params |-> <<Arg("to", <<"basic">>), Arg("mail", <<"slice", type>>)>>,
     results |-> <<Arg("id", <<"basic">>)>>, affinity |-> <<"to", "bare">>]
Tidy == [name |-> "Tidy", ctx |-> TRUE, err |-> TRUE, params |-> <<>>, results |-> <<>>, affinity |-> Rpc!NoAffinity]
Inner(exported) == [name |-> "secret", exported |-> exported, type |-> <<"basic">>]
Package(methods, exported, embeds) ==
    [dir |-> "mail", declared |-> {<<"ErrRequestInvalid">>}, invalid |-> TRUE,
     structs |-> [n \in {"Mail", "Stamp"} |->
                    IF n = "Mail" THEN <<[name |-> "stamp", exported |-> TRUE, type |-> <<"pointer", <<"named", "Stamp">>>>]>>
                    ELSE <<Inner(exported)>>],
     interfaces |-> <<[name |-> "Mailer", options |-> [k \in {"service_type", "capability"} |-> "mail"],
                       embeds |-> embeds, methods |-> methods]>>]
Services(set) == [dir |-> "internal/rpc", source |-> set]
MCRpc == <<
    Services({Package(<<Send(<<"named", "Mail">>), Tidy>>, TRUE, FALSE)}),
    Services({Package(<<Tidy>>, TRUE, FALSE)}),
    Services({Package(<<Send(<<"named", "Mail">>)>>, FALSE, FALSE)}),
    Services({Package(<<Tidy>>, TRUE, TRUE)})>>

Cols == <<[name |-> "ID", csv |-> "id", type |-> "int", title |-> "Number", required |-> TRUE, unique |-> FALSE, min |-> 1],
          [name |-> "Name", csv |-> "name", type |-> "string", title |-> "", required |-> FALSE, unique |-> TRUE, min |-> Table!NoMin],
          [name |-> "Cost", csv |-> "cost", type |-> "int", title |-> "Price", required |-> FALSE, unique |-> FALSE, min |-> Table!NoMin]>>
Sheet(kind) == [name |-> kind, kind |-> kind, file |-> "items", json |-> "items", key |-> "", fields |-> Cols]
Num(n) == <<"num", n>>
Text(t) == <<"text", t>>
Line(id, name, cost) == <<id, name, cost>>
Heads(n) == SubSeq(Table!HeadRows(Sheet("table")), 1, n)
Tables(dir, kind, rows) ==
    [dir |-> dir, source |-> [tables |-> {Sheet(kind)}, csv |-> [f \in {"items"} |-> rows]]]
Items == <<Line(Num(2), Text("sword"), Num(5)), Line(Table!Empty, Table!Empty, Table!Empty), Line(Num(1), Text("bow"), Table!Empty)>>
MCConfig == <<
    Tables("configs/table", "table", Heads(4) \o Items),
    Tables("configs/table", "table", Heads(1) \o Items),
    Tables("configs/table", "table", Heads(4) \o Items \o <<Line(Num(2), Text("axe"), Num(1))>>),
    Tables("configs/table", "table", Heads(3) \o <<Line(Num(0), Text("nail"), Num(1))>>),
    Tables("configs/table", "table", Heads(4) \o <<<<Num(4), Text("net")>>>>),
    Tables("configs/schema", "object", Heads(4) \o <<Line(Num(3), Text("rules"), Num(7))>>),
    [dir |-> "configs/schema", source |-> [tables |-> {Sheet("table")}, csv |-> [f \in {} |-> <<>>]]]>>

MCDeclarations ==
    [g \in Kinds |->
        CASE g = "dao" -> MCDao [] g = "event" -> MCEvent [] g = "errcode" -> MCErrcode
          [] g = "protocol" -> MCProtocol [] g = "entity" -> MCEntity [] g = "nest" -> MCNest
          [] g = "attribute" -> MCAttribute [] g = "webroute" -> MCRoute [] g = "rpc" -> MCRpc
          [] g = "config" -> MCConfig
          [] OTHER -> MCRegistry]
=============================================================================
