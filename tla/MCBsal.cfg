SPECIFICATION Spec
CONSTANTS
    Aps = {"home24", "home50", "home60"}
    Bands = {"24G", "5G"}
    BandOf <- MCBandOf
    Cfgs = {1, 2}
    Caps = {"a", "b"}
    MaxRaised = 1
    Ifnames = {"home24", "home50"}
    Bssids = {"x", "y"}
    Infos = {1, 2}
    Nodes = {1, 2, 3}
    None = None
    Unset = Unset
CONSTRAINT OnePartAtATime
INVARIANTS TypeOK GroupFollowsManager CallbackIsThere InfoFollowsStation NeighborsAgree
