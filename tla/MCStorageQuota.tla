--------------------------- MODULE MCStorageQuota ---------------------------
(* Three requests of one session in one process, one with the admin key and one from before the  *)
(* organization had a policy, and an import in another process.                                  *)
EXTENDS StorageQuota, TLC

CONSTANTS add, admin, other, import, m1, m2, m3, m4, p1, p2, a, b, org, prj1, s1, s2

MCProject == m1 :> p1 @@ m2 :> p1 @@ m3 :> p1 @@ m4 :> p1
MCCovers == org :> {p1, p2} @@ prj1 :> {p1}
MCLimit == org :> 2 @@ prj1 :> 2
MCResource == org :> 1 @@ prj1 :> 2
MCSnapshot == add :> {org, prj1} @@ admin :> {} @@ other :> {prj1} @@ import :> {org, prj1}
MCProc == add :> a @@ admin :> a @@ other :> a @@ import :> b
MCKind == add :> "add" @@ admin :> "raw" @@ other :> "add" @@ import :> "import"
MCKey == add :> s1 @@ admin :> s1 @@ other :> s1 @@ import :> s2
MCWant == add :> {m1, m2} @@ admin :> {m2} @@ other :> {m1, m3} @@ import :> {m4}
=============================================================================
