------------------------------ MODULE RouteGen ------------------------------
(***************************************************************************)
(* The HTTP route generator (internal/webroute): one registration file per *)
(* package that has functions under a web marker.                          *)
(*                                                                         *)
(* A marked function is a record                                           *)
(*   dir, pkg     where it is declared, and its package clause             *)
(*   name         the function                                             *)
(*   options      the options of the marker as a sequence of <<key, value>>*)
(*   request      the type of its third parameter, "raw" for RawRequest    *)
(*   signature    whether the rest of the signature is the required one    *)
(***************************************************************************)
EXTENDS Integers, Sequences, Functions, FiniteSets

MarkerOptions == {"method", "path", "body"}

BadOptions(fn) ==
    LET keys == [i \in DOMAIN fn.options |-> fn.options[i][1]]
    IN  \/ Range(keys) # MarkerOptions
        \/ ~IsInjective(keys)

Value(fn, key) == (CHOOSE o \in Range(fn.options) : o[1] = key)[2]

BadRoute(fn) ==
    \/ Value(fn, "method") \notin {"GET", "POST"}
    \/ Value(fn, "path") = "relative"
    \/ Value(fn, "body") \notin {"json", "raw"}
    \/ Value(fn, "method") = "GET" /\ Value(fn, "body") = "json"
    \/ ~fn.signature
    \/ Value(fn, "body") = "raw" /\ fn.request # "raw"

InDir(fns, dir) == {fn \in fns : fn.dir = dir}

Served(fn) == <<Value(fn, "method"), Value(fn, "path")>>

Duplicate(fns) ==
    \E fn, other \in fns : fn # other /\ fn.dir = other.dir /\ Served(fn) = Served(other)

Rejected(fns) ==
    \/ \E fn \in fns : BadOptions(fn) \/ BadRoute(fn)
    \/ \E fn, other \in fns : fn.dir = other.dir /\ fn.pkg # other.pkg
    \/ Duplicate(fns)

Dirs(fns) == {fn.dir : fn \in fns}

(* what the generated RegisterRoutes registers, and with which decoder *)
Content(fns, dir) ==
    {[route |-> Served(fn), handler |-> fn.name, body |-> Value(fn, "body")] : fn \in InDir(fns, dir)}

(***************************************************************************)
(* A service answers each marked route with the function that carries the  *)
(* marker, one function per route, a GET never waits for a JSON body, and  *)
(* a raw handler is given the request undecoded.                           *)
(***************************************************************************)
Serves(fns, files) ==
    /\ \A fn \in fns :
          /\ fn.dir \in DOMAIN files
          /\ {r.handler : r \in {s \in files[fn.dir] : s.route = Served(fn)}} = {fn.name}
          /\ \E r \in files[fn.dir] : r.handler = fn.name /\ (r.body = "json" \/ fn.request = "raw")
    /\ \A dir \in DOMAIN files : \A r \in files[dir] : ~(r.route[1] = "GET" /\ r.body = "json")
=============================================================================
