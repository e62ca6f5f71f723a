---------------------------- MODULE MCWhotServer ----------------------------
(* A small instance of WhotServer: one request of each kind clients send,  *)
(* and paths with the slashes where a comparison could go wrong.           *)
EXTENDS WhotServer

CONSTANT Curious  \* the connection on which all the requests come

Form(options, code) == [options |-> options, code |-> code]

Get(path) == [method |-> "GET", path |-> path, query |-> << >>, body |-> NoBody, wants |-> Nothing]
Post(path, query, body, wants) ==
    [method |-> "POST", path |-> path, query |-> query, body |-> body, wants |-> wants]

Requests ==
    { Post(<<"/", "g">>, << >>, Form("asked", << >>), Deed("create", <<"asked">>, 0)),
      Post(<<"/", "g", "/", "j">>, << >>, Form("default", <<"a", "-", "B", "1">>),
           Deed("join by code", <<"A", "B", "1">>, 0)),
      Post(<<"/", "g", "/", "j">>, << >>, Form("default", <<"a">>), Nothing),
      Post(<<"/", "g", "/", "x", "y", "/", "j">>, << >>, Form("default", << >>),
           Deed("join", <<"x", "y">>, 0)),
      Post(<<"/", "g", "/", "c">>, <<3, 0>>, NoBody, Deed("clean up", << >>, 60)),
      Post(<<"/", "g", "/", "c">>, <<3, 6, 0, 0>>, NoBody, Deed("clean up", << >>, 3600)),
      Post(<<"/", "g", "/", "c">>, <<2, 1, 4, 7, 4, 8, 3, 6, 4, 8>>, NoBody,
           Deed("clean up", << >>, 1800)),
      Post(<<"/", "g", "/", "/", "j">>, << >>, NoBody, Deed("join", << >>, 0)),
      Post(<<"/", "g", "/", "x", "/", "j", "/">>, << >>, NoBody, Nothing),
      Get(<<"/", "g", "/", "x", "/">>),
      Get(<<"/", "/", "g">>),
      Get(<<"/", "l">>),
      [Get(<<"/", "g">>) EXCEPT !.method = "PATCH"],
      [Get(<<"/", "g", "/", "j">>) EXCEPT !.method = "OPTIONS"] }

SentOn == [c \in Connection |-> IF c = Curious THEN Requests ELSE {Get(<<"/", "l">>)}]

StaticFiles == {<<"/", "index">>}
=============================================================================
