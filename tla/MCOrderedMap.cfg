CONSTANTS
    ka = ka
    kb = kb
    kc = kc
    old = old
    new = new
    Keys = {ka, kb, kc}
    Values = {old, new}
    NewValue = new
    None = None
SYMMETRY Permuted
SPECIFICATION Spec
INVARIANTS OrderEnumeratesKeys WalkMeetsKeysInOrder
PROPERTIES KeysKeepTheirPlace
