SPECIFICATION Spec
CONSTANTS
    Stickers = {1, 21}
    MaxStack = 10
INVARIANT TypeOK
INVARIANT UnlockedIsRedeemed
INVARIANT InfoFresh
PROPERTY ImplementsStickerBook
