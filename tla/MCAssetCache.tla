---------------------------- MODULE MCAssetCache -----------------------------
EXTENDS AssetCache

CONSTANTS a1, a2, a3, a4

MCAssets == {a1, a2, a3, a4}

MCSizeOf == [a \in MCAssets |->
               CASE a = a1 -> 1 [] a = a2 -> 2 [] a = a3 -> 3 [] a = a4 -> 5]

==============================================================================
