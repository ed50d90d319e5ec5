--------------------------- MODULE MCProjectFiles ---------------------------
EXTENDS ProjectFiles, TLC

ConstSource == "db_gen.go" :> "db.go"
ConstNeeds == "Makefile" :> "game" @@ "shop.yaml" :> "shop" @@ "shop.go" :> "shop"
ConstArtifact == "game" :> {} @@ "hand" :> {} @@ "shop" :> {"rpc.go"}
ConstOrder == <<"Makefile", "db.go", "db_gen.go", "go.mod", "rpc.go", "shop.go", "shop.yaml">>
=============================================================================
