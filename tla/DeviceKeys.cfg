SPECIFICATION KeysSpec
CONSTANTS
    Rows <- MCRows
    Columns <- MCColumns
    MaxPressed = 3
    Codes = {68, 190}
    evdev_to_wqx <- MCEvdev
    RemoteIds = {8, 16}
    key_id_to_yx <- MCYx
    NoCell = NoCell
    MaxEvents = 2
INVARIANTS FbMatrixFollowsKeys ScanIsHonest
