SPECIFICATION Spec
CONSTANTS
    Ifnames = {"home24", "home50", "home60"}
    BandOf <- MCBandOf
    numRadios = 3
    Cfgs = {1, 2}
    Zero = Zero
    Pointer = Pointer
INVARIANT IfacesAddedToGroup
