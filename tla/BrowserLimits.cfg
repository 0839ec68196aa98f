SPECIFICATION SlotFairSpec
CONSTANTS
  a1 = a1
  a2 = a2
  a3 = a3
  page1 = page1
  login1 = login1
  api2 = api2
  page3 = page3
  Jobs = {page1, login1, api2, page3}
  Accounts = {a1, a2, a3}
  Account <- AccountOf
  Kind <- KindOf
  MaxSlots = 2
  Nil = Nil
INVARIANTS SlotTypes NoSlotLeak BrowserLimit OneBrowserPerAccount
PROPERTIES LockReturned
